---- MODULE Spec2Model ----
(***************************************************************************)
(* Fuzzy schema / value reconciliation of the dealership data loader:      *)
(*   legacy_code/column_matcher (1).py  token_ratio, best_match_score      *)
(*   legacy_code/schema_config.py       EXPECTED_COLUMNS, LEAD_SOURCES     *)
(*   legacy_code/data_loader.py         load_csv_file                      *)
(*   legacy_code/data_cleaner.py        normalize_lead_sources,            *)
(*                                      to_snake_case, clean_data          *)
(*   attached_assets/data_insights.py   handle_upload                      *)
(*                                                                         *)
(* A string is a sequence of one-character strings.  A score is a Python   *)
(* float in [0,100]; it is kept here in thousandths of a point (an         *)
(* integer in 0..100000), which orders and separates every pair of scores  *)
(* that strings of the lengths used here can produce.                      *)
(* rapidfuzz is modelled at its documented 3.x behaviour: neither the      *)
(* scorers nor process.extractOne preprocess (lower-case, strip) strings.  *)
(***************************************************************************)
EXTENDS Integers, Sequences, FiniteSets, TLC

(***************************************************************************)
(* Characters, in code point order.                                        *)
(***************************************************************************)
Alphabet ==
  << " ", "-", ".",
     "0", "1", "2", "3", "4", "5", "6", "7", "8", "9",
     "A", "B", "C", "D", "E", "F", "G", "H", "I", "J", "K", "L", "M",
     "N", "O", "P", "Q", "R", "S", "T", "U", "V", "W", "X", "Y", "Z",
     "_",
     "a", "b", "c", "d", "e", "f", "g", "h", "i", "j", "k", "l", "m",
     "n", "o", "p", "q", "r", "s", "t", "u", "v", "w", "x", "y", "z" >>

Ord(c) == CHOOSE i \in 1..Len(Alphabet) : Alphabet[i] = c

IsUpper(c) == Ord(c) >= Ord("A") /\ Ord(c) <= Ord("Z")

IsSpace(c) == c = " "

\* str.lower() on one character
LowerChar(c) == IF IsUpper(c) THEN Alphabet[Ord(c) - Ord("A") + Ord("a")] ELSE c

\* str.lower()
Lower(s) == [i \in 1..Len(s) |-> LowerChar(s[i])]

\* str.replace(old, new) for a one-character old and new
ReplaceChar(s, old, new) == [i \in 1..Len(s) |-> IF s[i] = old THEN new ELSE s[i]]

\* Python's order on str: lexicographic by code point
RECURSIVE StrLess(_, _)
StrLess(a, b) ==
  IF b = <<>> THEN FALSE
  ELSE IF a = <<>> THEN TRUE
  ELSE IF Head(a) = Head(b) THEN StrLess(Tail(a), Tail(b))
  ELSE Ord(Head(a)) < Ord(Head(b))

(***************************************************************************)
(* rapidfuzz.fuzz.token_sort_ratio, which token_ratio wraps.               *)
(***************************************************************************)
\* split on runs of white space, dropping empty tokens
RECURSIVE SplitFrom(_, _, _, _)
SplitFrom(s, i, cur, acc) ==
  IF i > Len(s)
    THEN IF cur = <<>> THEN acc ELSE Append(acc, cur)
  ELSE IF IsSpace(s[i])
    THEN SplitFrom(s, i + 1, <<>>, IF cur = <<>> THEN acc ELSE Append(acc, cur))
  ELSE SplitFrom(s, i + 1, Append(cur, s[i]), acc)

Split(s) == SplitFrom(s, 1, <<>>, <<>>)

\* sorted(tokens)
RECURSIVE InsertSorted(_, _)
InsertSorted(tok, sorted) ==
  IF sorted = <<>> THEN << tok >>
  ELSE IF StrLess(tok, Head(sorted)) THEN << tok >> \o sorted
  ELSE << Head(sorted) >> \o InsertSorted(tok, Tail(sorted))

RECURSIVE SortTokens(_)
SortTokens(toks) ==
  IF toks = <<>> THEN <<>>
  ELSE InsertSorted(toks[Len(toks)], SortTokens(SubSeq(toks, 1, Len(toks) - 1)))

\* " ".join(tokens)
RECURSIVE JoinTokens(_)
JoinTokens(toks) ==
  IF toks = <<>> THEN <<>>
  ELSE IF Len(toks) = 1 THEN toks[1]
  ELSE toks[1] \o << " " >> \o JoinTokens(Tail(toks))

Max(S) == CHOOSE x \in S : \A y \in S : y <= x

\* The longest-common-subsequence table, a row at a time: prev[j + 1] is the
\* LCS length of a[1..i-1] and b[1..j], and the next row holds at j + 1 the
\* LCS length of a[1..i] and b[1..j], which is the larger of prev[j + 1] and
\* of prev[k] + 1 over the k <= j with b[k] = a[i].
LCSRow(ch, b, prev) ==
  [j \in 1..(Len(b) + 1) |->
     Max({ prev[j] } \cup { prev[k] + 1 : k \in { k \in 1..(j - 1) : b[k] = ch } })]
  \o <<>>

RECURSIVE LCSRows(_, _, _, _)
LCSRows(a, b, i, prev) ==
  IF i > Len(a) THEN prev[Len(b) + 1]
  ELSE LCSRows(a, b, i + 1, LCSRow(a[i], b, prev))

LCSLength(a, b) == LCSRows(a, b, 1, [j \in 1..(Len(b) + 1) |-> 0] \o <<>>)

\* fuzz.ratio: 100 * (1 - indel_distance / (len(a) + len(b))), in thousandths;
\* the indel distance is len(a) + len(b) - 2 * LCS.  Two empty strings score 100.
ratio(a, b) ==
  IF Len(a) + Len(b) = 0 THEN 100 * 1000
  ELSE (100 * 1000 * 2 * LCSLength(a, b)) \div (Len(a) + Len(b))

token_sort_ratio_Unsorted(a, b) == ratio(a, b)

token_sort_ratio(a, b) ==
  ratio(JoinTokens(SortTokens(Split(a))), JoinTokens(SortTokens(Split(b))))

token_ratio(a, b) == token_sort_ratio(a, b)

(***************************************************************************)
(* schema_config.py                                                        *)
(***************************************************************************)
EXPECTED_COLUMNS ==
  <<
    \* SoldDate: 'sale_date', 'date_sold', 'sold_on', 'dateofsale'
    [ name |-> <<"S", "o", "l", "d", "D", "a", "t", "e">>,
      aliases |-> <<
        <<"s", "a", "l", "e", "_", "d", "a", "t", "e">>,
        <<"d", "a", "t", "e", "_", "s", "o", "l", "d">>,
        <<"s", "o", "l", "d", "_", "o", "n">>,
        <<"d", "a", "t", "e", "o", "f", "s", "a", "l", "e">>
      >> ],
    \* CustomerName: 'customer', 'client_name', 'buyer_name', 'purchaser'
    [ name |-> <<"C", "u", "s", "t", "o", "m", "e", "r", "N", "a", "m", "e">>,
      aliases |-> <<
        <<"c", "u", "s", "t", "o", "m", "e", "r">>,
        <<"c", "l", "i", "e", "n", "t", "_", "n", "a", "m", "e">>,
        <<"b", "u", "y", "e", "r", "_", "n", "a", "m", "e">>,
        <<"p", "u", "r", "c", "h", "a", "s", "e", "r">>
      >> ],
    \* SellingPrice: 'price', 'amount_sold', 'sale_price', 'final_price'
    [ name |-> <<"S", "e", "l", "l", "i", "n", "g", "P", "r", "i", "c", "e">>,
      aliases |-> <<
        <<"p", "r", "i", "c", "e">>,
        <<"a", "m", "o", "u", "n", "t", "_", "s", "o", "l", "d">>,
        <<"s", "a", "l", "e", "_", "p", "r", "i", "c", "e">>,
        <<"f", "i", "n", "a", "l", "_", "p", "r", "i", "c", "e">>
      >> ]
  >>

LEAD_SOURCES ==
  <<
    \* NeoIdentity: 'Neo Ident.', 'NeoIdent.', 'Neo Ident', 'NeoIdentity', 'Neo Identified'
    [ name |-> <<"N", "e", "o", "I", "d", "e", "n", "t", "i", "t", "y">>,
      aliases |-> <<
        <<"N", "e", "o", " ", "I", "d", "e", "n", "t", ".">>,
        <<"N", "e", "o", "I", "d", "e", "n", "t", ".">>,
        <<"N", "e", "o", " ", "I", "d", "e", "n", "t">>,
        <<"N", "e", "o", "I", "d", "e", "n", "t", "i", "t", "y">>,
        <<"N", "e", "o", " ", "I", "d", "e", "n", "t", "i", "f", "i", "e", "d">>
      >> ],
    \* AutoTrader: 'Auto Trader', 'Autotrader', 'AutoTrader.com', 'AT'
    [ name |-> <<"A", "u", "t", "o", "T", "r", "a", "d", "e", "r">>,
      aliases |-> <<
        <<"A", "u", "t", "o", " ", "T", "r", "a", "d", "e", "r">>,
        <<"A", "u", "t", "o", "t", "r", "a", "d", "e", "r">>,
        <<"A", "u", "t", "o", "T", "r", "a", "d", "e", "r", ".", "c", "o", "m">>,
        <<"A", "T">>
      >> ],
    \* CarGurus: 'Car Gurus', 'Cargurus.com', 'CarGurus'
    [ name |-> <<"C", "a", "r", "G", "u", "r", "u", "s">>,
      aliases |-> <<
        <<"C", "a", "r", " ", "G", "u", "r", "u", "s">>,
        <<"C", "a", "r", "g", "u", "r", "u", "s", ".", "c", "o", "m">>,
        <<"C", "a", "r", "G", "u", "r", "u", "s">>
      >> ],
    \* Facebook: 'FB', 'Facebook Marketplace', 'Facebook'
    [ name |-> <<"F", "a", "c", "e", "b", "o", "o", "k">>,
      aliases |-> <<
        <<"F", "B">>,
        <<"F", "a", "c", "e", "b", "o", "o", "k", " ", "M", "a", "r", "k", "e", "t", "p", "l", "a", "c", "e">>,
        <<"F", "a", "c", "e", "b", "o", "o", "k">>
      >> ],
    \* WalkIn: 'Walk In', 'Walk-In', 'WalkIn'
    [ name |-> <<"W", "a", "l", "k", "I", "n">>,
      aliases |-> <<
        <<"W", "a", "l", "k", " ", "I", "n">>,
        <<"W", "a", "l", "k", "-", "I", "n">>,
        <<"W", "a", "l", "k", "I", "n">>
      >> ]
  >>

\* the acceptance threshold, "if score >= 85", in points
Threshold == 85

\* a score in points, as thousandths
Points(n) == n * 1000

(***************************************************************************)
(* A Python dict: the sequence of its items in insertion order.  Assigning *)
(* to a key that is present replaces its value and keeps its position.     *)
(***************************************************************************)
DictKeys(d) == [i \in 1..Len(d) |-> d[i].key] \o <<>>

DictHas(d, k) == \E i \in 1..Len(d) : d[i].key = k

DictGet(d, k) == d[CHOOSE i \in 1..Len(d) : d[i].key = k].value

DictSet(d, k, v) ==
  IF DictHas(d, k)
    THEN [i \in 1..Len(d) |-> IF d[i].key = k THEN [key |-> k, value |-> v] ELSE d[i]]
    ELSE Append(d, [key |-> k, value |-> v])

(***************************************************************************)
(* The alias-to-canonical lookup, built the same way by load_csv_file      *)
(* (from EXPECTED_COLUMNS) and normalize_lead_sources (from LEAD_SOURCES). *)
(***************************************************************************)
\* for alias in col["aliases"]: alias_to_canonical[alias] = col["name"]
RECURSIVE AddAliases(_, _, _, _)
AddAliases(d, aliases, name, j) ==
  IF j > Len(aliases) THEN d
  ELSE AddAliases(DictSet(d, aliases[j], name), aliases, name, j + 1)

\* AddEntry without the canonical name as a key of its own
AddEntry_NoName(d, entry) ==
  AddAliases(d, entry.aliases, entry.name, 1)

\* AddEntry that stores, under the canonical name, the loop variable left
\* over from the aliases
AddEntry_NameToLastAlias(d, entry) ==
  DictSet(AddAliases(d, entry.aliases, entry.name, 1), entry.name,
          IF entry.aliases = <<>> THEN entry.name
          ELSE entry.aliases[Len(entry.aliases)])

\* one iteration of "for col in EXPECTED_COLUMNS": the aliases, then the name
AddEntry(d, entry) ==
  DictSet(AddAliases(d, entry.aliases, entry.name, 1), entry.name, entry.name)

RECURSIVE AddEntries(_, _, _)
AddEntries(d, entries, i) ==
  IF i > Len(entries) THEN d
  ELSE AddEntries(AddEntry(d, entries[i]), entries, i + 1)

BuildAliasToCanonical(entries) == AddEntries(<<>>, entries, 1)

(***************************************************************************)
(* The inputs of the model                                                 *)
(***************************************************************************)
\* the sequences over S of length lo..hi
SeqsOf(S, lo, hi) == UNION { [1..n -> S] : n \in lo..hi }

IsInjective(s) == \A i, j \in 1..Len(s) : s[i] = s[j] => i = j

Range(s) == { s[i] : i \in 1..Len(s) }

\* bound: the number of columns of the CSV file
MaxCols == 2

\* header names a CSV file may carry: every canonical name and alias, and
\* 'Sale_Price', 'sale price', 'sale_prices', 'Randomzzz123', 'Customer', 'PRICE', 'ID'
ColumnNamePool ==
  Range(DictKeys(BuildAliasToCanonical(EXPECTED_COLUMNS))) \cup
  {
     <<"S", "a", "l", "e", "_", "P", "r", "i", "c", "e">>,
     <<"s", "a", "l", "e", " ", "p", "r", "i", "c", "e">>,
     <<"s", "a", "l", "e", "_", "p", "r", "i", "c", "e", "s">>,
     <<"R", "a", "n", "d", "o", "m", "z", "z", "z", "1", "2", "3">>,
     <<"C", "u", "s", "t", "o", "m", "e", "r">>,
     <<"P", "R", "I", "C", "E">>,
     <<"I", "D">>
  }

Str(s) == [t |-> "str", s |-> s]

Null == [t |-> "null", s |-> <<>>]

Num42 == [t |-> "num", s |-> <<"4", "2">>]

\* bounds: the rows of the frame, and the calls made on one frame
MaxRows == 2

MaxCalls == 2

\* values of a lead-source column: the canonical names, and
\* 'Walk In', 'In Walk', 'Walk-in', 'walk-in  ', 'Craigslist', None, 42
LeadValuePool ==
  { Str(LEAD_SOURCES[i].name) : i \in 1..Len(LEAD_SOURCES) } \cup
  {
     [t |-> "str", s |-> <<"W", "a", "l", "k", " ", "I", "n">>],
     [t |-> "str", s |-> <<"I", "n", " ", "W", "a", "l", "k">>],
     [t |-> "str", s |-> <<"W", "a", "l", "k", "-", "i", "n">>],
     [t |-> "str", s |-> <<"w", "a", "l", "k", "-", "i", "n", " ", " ">>],
     [t |-> "str", s |-> <<"C", "r", "a", "i", "g", "s", "l", "i", "s", "t">>],
     Null,
     Num42
  }

\* every cell of the second column: 'Walk In'
OtherCell == Str(<<"W", "a", "l", "k", " ", "I", "n">>)

\* labels of the two columns: a lead-source column, two of them, none
LabelsPool ==
  {
     << <<"L", "e", "a", "d", " ", "S", "o", "u", "r", "c", "e">>, <<"N", "o", "t", "e", "s">> >>,
     << <<"L", "e", "a", "d", "S", "o", "u", "r", "c", "e">>, <<"l", "e", "a", "d", " ", "s", "o", "u", "r", "c", "e">> >>,
     << <<"S", "o", "u", "r", "c", "e">>, <<"N", "o", "t", "e", "s">> >>
  }

(***************************************************************************)
(* process.extractOne, which best_match_score wraps: the first choice that *)
(* reaches the highest score, with that score.  choices is not empty.      *)
(***************************************************************************)
\* the scorer argument names the scoring function; every caller passes
\* scorer=token_ratio
ApplyScorer(scorer, a, b) ==
  CASE scorer = "token_ratio" -> token_ratio(a, b)

\* extractOne that keeps the last choice that reaches the highest score
RECURSIVE extractOne_LastBest(_, _, _, _, _, _)
extractOne_LastBest(query, choices, scorer, i, match, score) ==
  IF i > Len(choices) THEN [match |-> match, score |-> score]
  ELSE LET s == ApplyScorer(scorer, query, choices[i])
       IN IF s >= score
            THEN extractOne_LastBest(query, choices, scorer, i + 1, choices[i], s)
            ELSE extractOne_LastBest(query, choices, scorer, i + 1, match, score)

RECURSIVE extractOne(_, _, _, _, _, _)
extractOne(query, choices, scorer, i, match, score) ==
  IF i > Len(choices) THEN [match |-> match, score |-> score]
  ELSE LET s == ApplyScorer(scorer, query, choices[i])
       IN IF s > score
            THEN extractOne(query, choices, scorer, i + 1, choices[i], s)
            ELSE extractOne(query, choices, scorer, i + 1, match, score)

process_extractOne(query, choices, scorer) ==
  extractOne(query, choices, scorer, 2, choices[1],
             ApplyScorer(scorer, query, choices[1]))

\* best_match_score is a pure function: its results for the header names and
\* the cell values of the pools are computed once and looked up afterwards
best_match_calls ==
  { << q, DictKeys(BuildAliasToCanonical(EXPECTED_COLUMNS)), "token_ratio" >> :
      q \in ColumnNamePool } \cup
  { << v.s, DictKeys(BuildAliasToCanonical(LEAD_SOURCES)), "token_ratio" >> :
      v \in { c \in LeadValuePool : c.t = "str" } }

best_match_cache ==
  [ call \in best_match_calls |-> process_extractOne(call[1], call[2], call[3]) ]

best_match_score(query, choices, scorer) ==
  IF << query, choices, scorer >> \in best_match_calls
    THEN best_match_cache[<< query, choices, scorer >>]
    ELSE process_extractOne(query, choices, scorer)

(***************************************************************************)
(* State.                                                                  *)
(*   columns, mapping, mapping_meta, load_pc,                              *)
(*     file_exists, csv_data, column_info, pyarrow,                        *)
(*     astype_raises, read_dtypes, df_dtypes,                              *)
(*     df_columns, requested_types,                                        *)
(*     load_result, load_line                       load_csv_file          *)
(*   df, df_prev, normalization_meta, returned,                            *)
(*     calls                                        normalize_lead_sources *)
(*   config, alias_to_canonical, registry_pc        the lookup, built from *)
(*                                                  an arbitrary config    *)
(*   snake_in, snake_out, snake_pc                  to_snake_case          *)
(*   match_query, match_choices, match_result,                             *)
(*     match_pc                                     best_match_score       *)
(*   clean_in, clean_out, clean_pc                  clean_data             *)
(*   upload_present, upload_columns, upload_data,                          *)
(*     structured_logging, upload_pc, upload_result,                       *)
(*     upload_line, session_df                      handle_upload          *)
(***************************************************************************)
VARIABLES columns, mapping, mapping_meta, load_pc,
          file_exists, csv_data, column_info, pyarrow, astype_raises,
          read_dtypes, df_dtypes, df_columns, requested_types,
          load_result, load_line,
          df, df_prev, normalization_meta, returned, calls,
          config, alias_to_canonical, registry_pc,
          snake_in, snake_out, snake_pc,
          match_query, match_choices, match_result, match_pc,
          clean_in, clean_out, clean_pc,
          upload_present, upload_columns, upload_data, structured_logging,
          upload_pc, upload_result, upload_line, session_df,
          pdf_in, pdf_call, pdf_out, pdf_calls, temp_files,
          score_a, score_b, score_ab, score_ba, score_pc,
          pipe_in, pipe_df, pipe_meta, pipe_steps, pipe_pc,
          route_file, route_reply, uploads, metadata_files, upload_files,
          background_tasks, route_pc,
          vocabulary, call_slots

vars == << columns, mapping, mapping_meta, load_pc,
           file_exists, csv_data, column_info, pyarrow, astype_raises,
           read_dtypes, df_dtypes, df_columns, requested_types,
          load_result, load_line,
           df, df_prev, normalization_meta, returned, calls,
           config, alias_to_canonical, registry_pc,
           snake_in, snake_out, snake_pc,
           match_query, match_choices, match_result, match_pc,
           clean_in, clean_out, clean_pc,
           upload_present, upload_columns, upload_data, structured_logging,
           upload_pc, upload_result, upload_line, session_df,
           pdf_in, pdf_call, pdf_out, pdf_calls, temp_files,
           score_a, score_b, score_ab, score_ba, score_pc,
           pipe_in, pipe_df, pipe_meta, pipe_steps, pipe_pc,
           route_file, route_reply, uploads, metadata_files, upload_files,
           background_tasks, route_pc,
           vocabulary, call_slots >>

load_vars == << columns, mapping, mapping_meta, load_pc,
               file_exists, csv_data, column_info, pyarrow, astype_raises,
               read_dtypes, df_dtypes, df_columns, requested_types,
          load_result, load_line >>

normalize_vars == << df, df_prev, normalization_meta, returned, calls >>

registry_vars == << config, alias_to_canonical, registry_pc >>

snake_vars == << snake_in, snake_out, snake_pc >>

match_vars == << match_query, match_choices, match_result, match_pc >>

clean_vars == << clean_in, clean_out, clean_pc >>

upload_vars == << upload_present, upload_columns, upload_data, structured_logging,
                 upload_pc, upload_result, upload_line, session_df >>

pdf_vars == << pdf_in, pdf_call, pdf_out, pdf_calls, temp_files >>

score_vars == << score_a, score_b, score_ab, score_ba, score_pc >>

pipe_vars == << pipe_in, pipe_df, pipe_meta, pipe_steps, pipe_pc >>

route_vars == << route_file, route_reply, uploads, metadata_files, upload_files,
                background_tasks, route_pc >>

calls_vars == << vocabulary, call_slots >>

RegistryIdle ==
  /\ config = <<>>
  /\ alias_to_canonical = <<>>
  /\ registry_pc = "idle"

(***************************************************************************)
(* load_csv_file, the fuzzy column mapping                                 *)
(***************************************************************************)
\* MapColumn with the matched candidate, not its canonical name, as the
\* mapped name
MapColumn_MatchAsName(user_col, atc, acc) ==
  LET candidates == DictKeys(atc)
      best       == best_match_score(user_col, candidates, "token_ratio")
  IN IF best.score >= Points(Threshold)
       THEN [ mapping |-> DictSet(acc.mapping, user_col, best.match),
              mapping_meta |-> Append(acc.mapping_meta,
                 [ original_column |-> user_col,
                   mapped_to |-> best.match,
                   score |-> best.score ]) ]
       ELSE [ mapping |-> DictSet(acc.mapping, user_col, user_col),
              mapping_meta |-> Append(acc.mapping_meta,
                 [ original_column |-> user_col,
                   mapped_to |-> user_col,
                   score |-> best.score ]) ]

\* MapColumn that records only the columns it mapped
MapColumn_NoMetaOnMiss(user_col, atc, acc) ==
  LET candidates == DictKeys(atc)
      best       == best_match_score(user_col, candidates, "token_ratio")
      canonical  == DictGet(atc, best.match)
  IN IF best.score >= Points(Threshold)
       THEN [ mapping |-> DictSet(acc.mapping, user_col, canonical),
              mapping_meta |-> Append(acc.mapping_meta,
                 [ original_column |-> user_col,
                   mapped_to |-> canonical,
                   score |-> best.score ]) ]
       ELSE [ mapping |-> DictSet(acc.mapping, user_col, user_col),
              mapping_meta |-> acc.mapping_meta ]

\* the body of "for user_col in df_sample.columns": acc holds mapping and
\* mapping_meta
MapColumn(user_col, atc, acc) ==
  LET candidates == DictKeys(atc)
      best       == best_match_score(user_col, candidates, "token_ratio")
      canonical  == DictGet(atc, best.match)
  IN IF best.score >= Points(Threshold)
       THEN [ mapping |-> DictSet(acc.mapping, user_col, canonical),
              mapping_meta |-> Append(acc.mapping_meta,
                 [ original_column |-> user_col,
                   mapped_to |-> canonical,
                   score |-> best.score ]) ]
       ELSE [ mapping |-> DictSet(acc.mapping, user_col, user_col),
              mapping_meta |-> Append(acc.mapping_meta,
                 [ original_column |-> user_col,
                   mapped_to |-> user_col,
                   score |-> best.score ]) ]

RECURSIVE MapColumns(_, _, _, _)
MapColumns(cols, i, atc, acc) ==
  IF i > Len(cols) THEN acc
  ELSE MapColumns(cols, i + 1, atc, MapColumn(cols[i], atc, acc))

(***************************************************************************)
(* load_csv_file                                                           *)
(*                                                                         *)
(* The CSV file is its header (columns) and, for every column, the cells   *)
(* of its rows (csv_data); a cell is "int" for an integer literal, "null"  *)
(* for a missing value, "date" for a date and "text" for any other text.   *)
(* column_info holds the data_type that _analyze_column_semantics, a       *)
(* language model service, answers for each column; load_line is the line  *)
(* of data_loader.py at which the call ended and load_result what ended    *)
(* it: "returned" or the exception raised.  load_pc tells how far the call *)
(* got: "failed" when it ended before line 49, "mapped" when the column    *)
(* mapping of lines 49-83 was computed.                                    *)
(***************************************************************************)
HasKind(cells, k) == \E r \in 1..Len(cells) : cells[r] = k

\* the dtype pandas.read_csv infers for a column it is given no dtype for
InferDtype(cells, arrow) ==
  IF HasKind(cells, "text") \/ HasKind(cells, "date")
    THEN IF arrow THEN "string[pyarrow]" ELSE "object"
  ELSE IF HasKind(cells, "int")
    THEN IF arrow THEN "int64[pyarrow]"
         ELSE IF HasKind(cells, "null") THEN "float64" ELSE "int64"
  ELSE IF arrow THEN "null[pyarrow]" ELSE "float64"

\* read_csv(dtype={label: dtype}) on the column: the dtype of the column, or
\* "ValueError" when a cell cannot be converted
DeclaredDtype(cells, dtype) ==
  CASE dtype = "int64" ->
         IF HasKind(cells, "text") \/ HasKind(cells, "date") \/ HasKind(cells, "null")
           THEN "ValueError" ELSE "int64"
    [] OTHER -> "object"

\* read_csv(parse_dates=[label]) on the column: a column with a cell that is
\* no date is returned unaltered; whether integers are taken for dates is
\* left open (ints_as_dates)
ParseDates(cells, arrow, ints_as_dates) ==
  IF HasKind(cells, "text") \/ (HasKind(cells, "int") /\ ~ints_as_dates)
    THEN InferDtype(cells, arrow)
    ELSE "datetime64[ns]"

\* lines 89-106: column_types and parse_dates, keyed by the labels of
\* df_sample after the rename of line 86
RECURSIVE AnalyzeColumns(_, _, _, _)
AnalyzeColumns(labels, info, i, acc) ==
  IF i > Len(labels) THEN acc
  ELSE IF info[i] = "datetime64"
    THEN AnalyzeColumns(labels, info, i + 1,
           [acc EXCEPT !.parse_dates = Append(acc.parse_dates, labels[i])])
    ELSE AnalyzeColumns(labels, info, i + 1,
           [acc EXCEPT !.column_types = DictSet(acc.column_types, labels[i], info[i])])

\* pd.read_csv(file_path, dtype=column_types, parse_dates=parse_dates): the
\* dtypes of the columns of the file, which carry the labels of its header
ReadCsv(cols, data, column_types, parse_dates, arrow, ints_as_dates) ==
  LET dtypes == [i \in 1..Len(cols) |->
                   IF cols[i] \in Range(parse_dates)
                     THEN ParseDates(data[i], arrow, ints_as_dates)
                   ELSE IF DictHas(column_types, cols[i])
                     THEN DeclaredDtype(data[i], DictGet(column_types, cols[i]))
                   ELSE InferDtype(data[i], arrow)] \o <<>>
  IN IF \E l \in Range(parse_dates) : l \notin Range(cols)
       THEN [ok |-> FALSE, dtypes |-> <<>>]
     ELSE IF \E i \in 1..Len(cols) : dtypes[i] = "ValueError"
       THEN [ok |-> FALSE, dtypes |-> <<>>]
     ELSE [ok |-> TRUE, dtypes |-> dtypes]

IsIntegerDtype(dtype) == dtype \in { "int64", "int64[pyarrow]", "Int64" }

\* PromoteInteger that makes every integer column with a null a float column
PromoteInteger_ToFloat(dtype, cells, raises) ==
  IF IsIntegerDtype(dtype) /\ HasKind(cells, "null") THEN "float64" ELSE dtype

\* lines 119-127: the dtype of a column after the loop; raises tells
\* whether astype('Int64') raises
PromoteInteger(dtype, cells, raises) ==
  IF IsIntegerDtype(dtype) /\ HasKind(cells, "null")
    THEN IF raises THEN "float64" ELSE "Int64"
    ELSE dtype

\* BasicValidation that accepts a file without rows
BasicValidation_ColumnsOnly(nrows, ncols) ==
  IF ncols < 2 THEN 139 ELSE 143

\* lines 135-143: the line at which the call ends
BasicValidation(nrows, ncols) ==
  IF nrows = 0 \/ ncols = 0 THEN 136
  ELSE IF ncols < 2 THEN 139
  ELSE 143

NoFrame ==
  [ line |-> 0, result |-> "none", read_dtypes |-> <<>>, df_dtypes |-> <<>>,
    df_columns |-> <<>>, requested_types |-> <<>> ]

\* the data type read_csv is asked for a column of the file with this label:
\* "datetime64" for a label of parse_dates, the entry of column_types, or
\* "none" when neither names the label
RequestedType(label, analysis) ==
  IF label \in Range(analysis.parse_dates) THEN "datetime64"
  ELSE IF DictHas(analysis.column_types, label)
    THEN DictGet(analysis.column_types, label)
  ELSE "none"

\* lines 86-143, after the column mapping
LoadFrame(cols, data, info, map, arrow, raises, ints_as_dates) ==
  LET labels   == [i \in 1..Len(cols) |-> DictGet(map, cols[i])] \o <<>>
      analysis == AnalyzeColumns(labels, info, 1, [column_types |-> <<>>, parse_dates |-> <<>>])
      first    == ReadCsv(cols, data, analysis.column_types, analysis.parse_dates, TRUE, ints_as_dates)
      fallback == ReadCsv(cols, data, analysis.column_types, analysis.parse_dates, FALSE, ints_as_dates)
      read     == IF arrow /\ first.ok THEN first ELSE fallback
      promoted == [i \in 1..Len(cols) |-> PromoteInteger(read.dtypes[i], data[i], raises)] \o <<>>
      nrows    == IF data = <<>> THEN 0 ELSE Len(data[1])
  IN IF ~IsInjective(labels)
       THEN \* df_sample[col] is a DataFrame, which has no tolist
            [NoFrame EXCEPT !.line = 93, !.result = "AttributeError"]
     ELSE IF ~read.ok
       THEN [NoFrame EXCEPT !.line = IF arrow THEN 116 ELSE 113, !.result = "ValueError"]
     ELSE [ line |-> BasicValidation(nrows, Len(cols)),
            result |-> IF BasicValidation(nrows, Len(cols)) = 143
                         THEN "returned" ELSE "ValueError",
            read_dtypes |-> read.dtypes,
            df_dtypes |-> promoted,
            \* the frame read at lines 110-116 carries the labels of the file
            df_columns |-> cols,
            requested_types |->
              [i \in 1..Len(cols) |-> RequestedType(cols[i], analysis)] \o <<>> ]

LoadIdle ==
  /\ columns = <<>>
  /\ mapping = <<>>
  /\ mapping_meta = <<>>
  /\ load_pc = "idle"
  /\ file_exists = FALSE
  /\ csv_data = <<>>
  /\ column_info = <<>>
  /\ pyarrow = FALSE
  /\ astype_raises = FALSE
  /\ read_dtypes = <<>>
  /\ df_dtypes = <<>>
  /\ df_columns = <<>>
  /\ requested_types = <<>>
  /\ load_result = "none"
  /\ load_line = 0

LoadNotCalled ==
  /\ mapping = <<>>
  /\ mapping_meta = <<>>
  /\ load_pc = "ready"
  /\ read_dtypes = <<>>
  /\ df_dtypes = <<>>
  /\ df_columns = <<>>
  /\ requested_types = <<>>
  /\ load_result = "none"
  /\ load_line = 0

\* pandas.read_csv makes the column labels of a frame distinct; here every
\* column holds one integer and is analyzed as "object"
InitLoad ==
  /\ columns \in { s \in SeqsOf(ColumnNamePool, 1, MaxCols) : IsInjective(s) }
  /\ file_exists = TRUE
  /\ csv_data = [i \in 1..Len(columns) |-> << "int" >>]
  /\ column_info = [i \in 1..Len(columns) |-> "object"]
  /\ pyarrow = TRUE
  /\ astype_raises = FALSE
  /\ LoadNotCalled

\* headers of the files: none, 'ID', 'ID' and 'price', 'price' and
\* 'sale_price'
FileHeaderPool ==
  {
     <<>>,
     << <<"I", "D">> >>,
     << <<"I", "D">>, <<"p", "r", "i", "c", "e">> >>,
     << <<"p", "r", "i", "c", "e">>, <<"s", "a", "l", "e", "_", "p", "r", "i", "c", "e">> >>
  }

FileCellPool == { "int", "null", "text" }

DataTypePool == { "int64", "datetime64", "object" }

\* the files with a header of the pool and up to MaxRows rows; a file
\* that does not exist has no content
InitLoadFiles ==
  /\ file_exists \in BOOLEAN
  /\ columns \in FileHeaderPool
  /\ \E n \in 0..MaxRows : csv_data \in [1..Len(columns) -> [1..n -> FileCellPool]]
  /\ column_info \in [1..Len(columns) -> DataTypePool]
  /\ pyarrow \in BOOLEAN
  /\ astype_raises \in BOOLEAN
  /\ ~file_exists =>
       /\ columns = <<>>
       /\ pyarrow
       /\ ~astype_raises
  /\ LoadNotCalled

\* df, mapping, mapping_meta = load_csv_file(file_path)
load_csv_file ==
  /\ load_pc = "ready"
  /\ UNCHANGED << columns, file_exists, csv_data, column_info, pyarrow, astype_raises >>
  /\ IF ~file_exists
       THEN /\ load_pc' = "failed"
            /\ load_result' = "FileNotFoundError"
            /\ load_line' = 32
            /\ UNCHANGED << mapping, mapping_meta, read_dtypes, df_dtypes,
                           df_columns, requested_types >>
     ELSE IF columns = <<>>
       THEN \* read_csv finds no columns to parse
            /\ load_pc' = "failed"
            /\ load_result' = "EmptyDataError"
            /\ load_line' = 47
            /\ UNCHANGED << mapping, mapping_meta, read_dtypes, df_dtypes,
                           df_columns, requested_types >>
     ELSE LET atc == BuildAliasToCanonical(EXPECTED_COLUMNS)
              res == MapColumns(columns, 1, atc, [mapping |-> <<>>, mapping_meta |-> <<>>])
          IN /\ mapping' = res.mapping
             /\ mapping_meta' = res.mapping_meta
             /\ load_pc' = "mapped"
             /\ \E ints_as_dates \in BOOLEAN :
                  LET frame == LoadFrame(columns, csv_data, column_info, res.mapping,
                                         pyarrow, astype_raises, ints_as_dates)
                  IN /\ read_dtypes' = frame.read_dtypes
                     /\ df_dtypes' = frame.df_dtypes
                     /\ df_columns' = frame.df_columns
                     /\ requested_types' = frame.requested_types
                     /\ load_result' = frame.result
                     /\ load_line' = frame.line

(***************************************************************************)
(* data_insights.handle_upload                                             *)
(*                                                                         *)
(* The uploaded file is given like the file of load_csv_file: its header   *)
(* (upload_columns) and the cells of every column (upload_data);           *)
(* upload_present is FALSE for "not uploaded_file".  structured_logging    *)
(* tells whether watchdog_ai.logging could be imported (lines 15-24): its  *)
(* logger takes keyword arguments, the logger of the standard library,     *)
(* configured at level INFO, raises TypeError when given one.              *)
(* session_df is the frame stored in st.session_state: the dtype of every  *)
(* column and its cells, "datetime" and "NaT" in a converted column.       *)
(***************************************************************************)
\* sub in s, for two strings
Contains(s, sub) ==
  \E i \in 0..(Len(s) - Len(sub)) : SubSeq(s, i + 1, i + Len(sub)) = sub

\* 'date', 'time', 'month', 'year'
DateTerms ==
  { <<"d", "a", "t", "e">>, <<"t", "i", "m", "e">>,
    <<"m", "o", "n", "t", "h">>, <<"y", "e", "a", "r">> }

\* line 113: any(term in col.lower() for term in [...])
IsDateColumn(col) == \E term \in DateTerms : Contains(Lower(col) \o <<>>, term)

\* pd.to_datetime(df[col]) raises when a value cannot be parsed
ToDatetimeRaises(cells) ==
  HasKind(cells, "text") \/ (HasKind(cells, "int") /\ HasKind(cells, "date"))

ToDatetimeCell(cell) == IF cell = "null" THEN "NaT" ELSE "datetime"

\* lines 91-121 on one column: object columns become "string", and a column
\* with a date term in its label becomes a datetime column unless
\* pd.to_datetime raises
ConvertColumn(col, cells) ==
  LET read == InferDtype(cells, FALSE)
  IN IF IsDateColumn(col) /\ ~ToDatetimeRaises(cells)
       THEN [ dtype |-> "datetime64[ns]",
              cells |-> [r \in 1..Len(cells) |-> ToDatetimeCell(cells[r])] ]
       ELSE [ dtype |-> IF read = "object" THEN "string" ELSE read, cells |-> cells ]

NothingStored == [dtypes |-> <<>>, data |-> <<>>]

UploadIdle ==
  /\ upload_present = FALSE
  /\ upload_columns = <<>>
  /\ upload_data = <<>>
  /\ structured_logging = FALSE
  /\ upload_pc = "idle"
  /\ upload_result = "none"
  /\ upload_line = 0
  /\ session_df = NothingStored

UploadNotCalled ==
  /\ upload_pc = "ready"
  /\ upload_result = "none"
  /\ upload_line = 0
  /\ session_df = NothingStored

\* headers of the uploads: 'Sale Date' and 'Notes', 'Notes' and 'YEAR',
\* 'Notes' and 'ID', none
UploadHeaderPool ==
  {
     << <<"S", "a", "l", "e", " ", "D", "a", "t", "e">>, <<"N", "o", "t", "e", "s">> >>,
     << <<"N", "o", "t", "e", "s">>, <<"Y", "E", "A", "R">> >>,
     << <<"N", "o", "t", "e", "s">>, <<"I", "D">> >>,
     <<>>
  }

UploadCellPool == { "date", "text", "null" }

InitUpload ==
  /\ upload_present \in BOOLEAN
  /\ upload_columns \in UploadHeaderPool
  /\ \E n \in 0..MaxRows :
       upload_data \in [1..Len(upload_columns) -> [1..n -> UploadCellPool]]
  /\ structured_logging \in BOOLEAN
  /\ ~upload_present =>
       /\ upload_columns = <<>>
       /\ structured_logging
  /\ UploadNotCalled

\* the line of handle_upload at which the call ends
HandleUploadLine(present, cols, data, structured) ==
  IF ~present THEN 50
  ELSE IF cols = <<>> THEN 83
  ELSE IF Len(data[1]) = 0 THEN 75
  ELSE IF ~structured THEN 85
  ELSE 138

\* success, message = handle_upload(uploaded_file)
handle_upload ==
  /\ upload_pc = "ready"
  /\ upload_pc' = "done"
  /\ UNCHANGED << upload_present, upload_columns, upload_data, structured_logging >>
  /\ LET line == HandleUploadLine(upload_present, upload_columns, upload_data,
                                  structured_logging)
         converted == [c \in 1..Len(upload_columns) |->
                         ConvertColumn(upload_columns[c], upload_data[c])]
     IN /\ upload_line' = line
        /\ upload_result' = CASE line = 138 -> "True"
                              [] line = 85 -> "TypeError"
                              [] OTHER -> "False"
        /\ session_df' = IF line = 138
                           THEN [ dtypes |-> [c \in 1..Len(upload_columns) |-> converted[c].dtype],
                                  data |-> [c \in 1..Len(upload_columns) |-> converted[c].cells] ]
                           ELSE session_df

\* one file given to load_csv_file and to handle_upload
InitIntake ==
  /\ columns \in FileHeaderPool
  /\ \E n \in 0..MaxRows : csv_data \in [1..Len(columns) -> [1..n -> FileCellPool]]
  /\ file_exists = TRUE
  /\ column_info = [i \in 1..Len(columns) |-> "object"]
  /\ pyarrow \in BOOLEAN
  /\ astype_raises = FALSE
  /\ LoadNotCalled
  /\ upload_present = TRUE
  /\ upload_columns = columns
  /\ upload_data = csv_data
  /\ structured_logging \in BOOLEAN
  /\ UploadNotCalled

(***************************************************************************)
(* normalize_lead_sources                                                  *)
(*                                                                         *)
(* A cell is a record [t, s]: t is "str" for a Python str with characters  *)
(* s, "null" for None / NaN, "num" for a number (a non-string value).      *)
(* A frame is [columns |-> labels, data |-> one sequence of cells a label].*)
(***************************************************************************)
possible_names ==
  << <<"L", "e", "a", "d", "S", "o", "u", "r", "c", "e">>,
     <<"l", "e", "a", "d", "_", "s", "o", "u", "r", "c", "e">>,
     <<"l", "e", "a", "d", " ", "s", "o", "u", "r", "c", "e">>,
     <<"L", "e", "a", "d", " ", "S", "o", "u", "r", "c", "e">> >>

\* col.lower().replace(" ", "_")
NormalizeLabel(col) == ReplaceChar(Lower(col), " ", "_")

\* the first label of the frame that names the lead source, 0 if none does
FindLeadSourceCol(labels) ==
  LET hits == { i \in 1..Len(labels) :
                  NormalizeLabel(labels[i]) \in
                    { NormalizeLabel(possible_names[n]) : n \in 1..Len(possible_names) } }
  IN IF hits = {} THEN 0 ELSE CHOOSE i \in hits : \A j \in hits : i <= j

\* normalize_value with the matched candidate, not its canonical name, as
\* the normalized value
normalize_value_MatchAsValue(val, atc, meta) ==
  IF val.t # "str" THEN [value |-> val, meta |-> meta]
  ELSE LET candidates == DictKeys(atc)
           best       == best_match_score(val.s, candidates, "token_ratio")
       IN IF best.score >= Points(Threshold)
            THEN [ value |-> Str(best.match),
                   meta |-> Append(meta,
                      [ original_value |-> val,
                        normalized_to |-> Str(best.match),
                        score |-> best.score ]) ]
            ELSE [ value |-> val,
                   meta |-> Append(meta,
                      [ original_value |-> val,
                        normalized_to |-> val,
                        score |-> best.score ]) ]

\* normalize_value that turns a null into the empty string
normalize_value_FillsNull(val, atc, meta) ==
  IF val.t = "null" THEN [value |-> Str(<<>>), meta |-> meta]
  ELSE IF val.t # "str" THEN [value |-> val, meta |-> meta]
  ELSE LET candidates == DictKeys(atc)
           best       == best_match_score(val.s, candidates, "token_ratio")
       IN IF best.score >= Points(Threshold)
            THEN [ value |-> Str(DictGet(atc, best.match)),
                   meta |-> Append(meta,
                      [ original_value |-> val,
                        normalized_to |-> Str(DictGet(atc, best.match)),
                        score |-> best.score ]) ]
            ELSE [ value |-> val,
                   meta |-> Append(meta,
                      [ original_value |-> val,
                        normalized_to |-> val,
                        score |-> best.score ]) ]

\* normalize_value(val): the value returned and normalization_meta after the call
normalize_value(val, atc, meta) ==
  IF val.t # "str" THEN [value |-> val, meta |-> meta]
  ELSE LET candidates == DictKeys(atc)
           best       == best_match_score(val.s, candidates, "token_ratio")
       IN IF best.score >= Points(Threshold)
            THEN [ value |-> Str(DictGet(atc, best.match)),
                   meta |-> Append(meta,
                      [ original_value |-> val,
                        normalized_to |-> Str(DictGet(atc, best.match)),
                        score |-> best.score ]) ]
            ELSE [ value |-> val,
                   meta |-> Append(meta,
                      [ original_value |-> val,
                        normalized_to |-> val,
                        score |-> best.score ]) ]

\* df[lead_source_col].apply(normalize_value): acc holds the new column and
\* normalization_meta
RECURSIVE ApplyNormalize(_, _, _, _)
ApplyNormalize(col, i, atc, acc) ==
  IF i > Len(col) THEN acc
  ELSE LET r == normalize_value(col[i], atc, acc.meta)
       IN ApplyNormalize(col, i + 1, atc,
             [column |-> Append(acc.column, r.value), meta |-> r.meta])

NormalizeIdle ==
  /\ df = [columns |-> <<>>, data |-> <<>>]
  /\ df_prev = df
  /\ normalization_meta = <<>>
  /\ returned = "none"
  /\ calls = 0

InitNormalize ==
  /\ \E labels \in LabelsPool, n \in 0..MaxRows :
       \E lead \in [1..n -> LeadValuePool] :
          df = [columns |-> labels, data |-> << lead, [i \in 1..n |-> OtherCell] >>]
  /\ df_prev = df
  /\ normalization_meta = <<>>
  /\ returned = "none"
  /\ calls = 0

normalize_lead_sources ==
  /\ calls < MaxCalls
  /\ calls' = calls + 1
  /\ df_prev' = df
  /\ LET lead_source_col == FindLeadSourceCol(df.columns)
     IN IF lead_source_col = 0
          THEN \* return df
               /\ returned' = "df"
               /\ UNCHANGED << df, normalization_meta >>
          ELSE \* return df, normalization_meta
               LET atc == BuildAliasToCanonical(LEAD_SOURCES)
                   res == ApplyNormalize(df.data[lead_source_col], 1, atc,
                                         [column |-> <<>>, meta |-> <<>>])
               IN /\ df' = [df EXCEPT !.data[lead_source_col] = res.column]
                  /\ normalization_meta' = res.meta
                  /\ returned' = "pair"

(***************************************************************************)
(* data_cleaner.to_snake_case                                              *)
(*                                                                         *)
(* re.sub replaces the leftmost matches that do not overlap, scanning from *)
(* the left.  "." matches every character but a line feed, which no header *)
(* here holds.                                                             *)
(***************************************************************************)
IsLower(c) == Ord(c) >= Ord("a") /\ Ord(c) <= Ord("z")

IsDigit(c) == Ord(c) >= Ord("0") /\ Ord(c) <= Ord("9")

IsAlnum(c) == IsLower(c) \/ IsUpper(c) \/ IsDigit(c)

\* the end of the run [a-z]+ that starts at i
RECURSIVE LowerRunEnd(_, _)
LowerRunEnd(s, i) ==
  IF i < Len(s) /\ IsLower(s[i + 1]) THEN LowerRunEnd(s, i + 1) ELSE i

\* re.sub('(.)([A-Z][a-z]+)', r'\1_\2', s), from position i on
RECURSIVE SubBeforeWord(_, _)
SubBeforeWord(s, i) ==
  IF i > Len(s) THEN <<>>
  ELSE IF i + 2 <= Len(s) /\ IsUpper(s[i + 1]) /\ IsLower(s[i + 2])
    THEN << s[i], "_" >> \o SubSeq(s, i + 1, LowerRunEnd(s, i + 2))
           \o SubBeforeWord(s, LowerRunEnd(s, i + 2) + 1)
  ELSE << s[i] >> \o SubBeforeWord(s, i + 1)

\* SubLowerUpper that replaces nothing
SubLowerUpper_Nothing(s, i) == SubSeq(s, i, Len(s))

\* re.sub('([a-z0-9])([A-Z])', r'\1_\2', s), from position i on
RECURSIVE SubLowerUpper(_, _)
SubLowerUpper(s, i) ==
  IF i > Len(s) THEN <<>>
  ELSE IF i + 1 <= Len(s) /\ (IsLower(s[i]) \/ IsDigit(s[i])) /\ IsUpper(s[i + 1])
    THEN << s[i], "_", s[i + 1] >> \o SubLowerUpper(s, i + 2)
  ELSE << s[i] >> \o SubLowerUpper(s, i + 1)

\* re.sub(r'[^a-zA-Z0-9]', '_', s)
SubNonAlnum(s) == [i \in 1..Len(s) |-> IF IsAlnum(s[i]) THEN s[i] ELSE "_"] \o <<>>

\* re.sub(r'_+', '_', s), from position i on
RECURSIVE SubUnderscores(_, _)
SubUnderscores(s, i) ==
  IF i > Len(s) THEN <<>>
  ELSE IF s[i] = "_" /\ i > 1 /\ s[i - 1] = "_" THEN SubUnderscores(s, i + 1)
  ELSE << s[i] >> \o SubUnderscores(s, i + 1)

\* str.lstrip(ch), str.rstrip(ch), str.strip(ch) for a one-character ch
RECURSIVE LStrip(_, _)
LStrip(s, ch) ==
  IF s # <<>> /\ Head(s) = ch THEN LStrip(Tail(s), ch) ELSE s

RECURSIVE RStrip(_, _)
RStrip(s, ch) ==
  IF s # <<>> /\ s[Len(s)] = ch THEN RStrip(SubSeq(s, 1, Len(s) - 1), ch) ELSE s

Strip(s, ch) == RStrip(LStrip(s, ch), ch)

\* to_snake_case that neither collapses the separators nor lower-cases
to_snake_case_KeepsCaseAndRuns(name) ==
  LET s1 == SubBeforeWord(name, 1)
      s2 == SubLowerUpper(s1, 1)
      s3 == SubNonAlnum(s2)
  IN Strip(s3, "_")

to_snake_case(name) ==
  LET s1 == SubBeforeWord(name, 1)
      s2 == SubLowerUpper(s1, 1)
      s3 == SubNonAlnum(s2)
  IN Strip(Lower(SubUnderscores(s3, 1)) \o <<>>, "_")

\* bounds: the length of a header, and the times to_snake_case is applied
\* to its own result
MaxNameLen == 4

MaxApplications == 2

\* the characters of a header: a lower-case and an upper-case letter, a
\* digit, the separator, and a character that is none of these
NameChars == { "a", "B", "1", "_", " " }

SnakeIdle ==
  /\ snake_in = <<>>
  /\ snake_out = <<>>
  /\ snake_pc = "idle"

InitSnake ==
  /\ snake_in \in SeqsOf(NameChars, 0, MaxNameLen)
  /\ snake_out = <<>>
  /\ snake_pc = "ready"

\* snake_out[1] = to_snake_case(snake_in), snake_out[i+1] = to_snake_case(snake_out[i])
ApplyToSnakeCase ==
  /\ snake_pc = "ready"
  /\ Len(snake_out) < MaxApplications
  /\ snake_out' = Append(snake_out,
        to_snake_case(IF snake_out = <<>> THEN snake_in ELSE snake_out[Len(snake_out)]))
  /\ UNCHANGED << snake_in, snake_pc >>

(***************************************************************************)
(* data_cleaner.clean_data                                                 *)
(*                                                                         *)
(* A column has dtype object when one of its cells is a str; a column of   *)
(* numbers and nulls has a numeric dtype.  Series.str.strip() gives NaN    *)
(* for every cell that is not a str.  Selecting a label that two columns   *)
(* share gives a DataFrame, which has no attribute dtype.                  *)
(***************************************************************************)
IsObjectColumn(col) == \E i \in 1..Len(col) : col[i].t = "str"

\* Series.str.strip() on one cell
StrStripCell(cell) ==
  IF cell.t = "str" THEN Str(Strip(cell.s, " ")) ELSE Null

\* DataFrame.fillna('') on one cell
FillNaCell(cell) == IF cell.t = "null" THEN Str(<<>>) ELSE cell

\* the result of clean_data(frame): the frame returned, or raised = TRUE
\* when line 35 raises AttributeError
clean_data(frame) ==
  LET labels   == [i \in 1..Len(frame.columns) |-> to_snake_case(frame.columns[i])] \o <<>>
      objects  == { i \in 1..Len(labels) : IsObjectColumn(frame.data[i]) }
      shared   == { i \in 1..Len(labels) : \E j \in 1..Len(labels) : j # i /\ labels[j] = labels[i] }
      stripped == [i \in 1..Len(labels) |->
                     IF i \in objects
                       THEN [r \in 1..Len(frame.data[i]) |-> StrStripCell(frame.data[i][r])]
                       ELSE frame.data[i]]
      filled   == [i \in 1..Len(labels) |->
                     [r \in 1..Len(stripped[i]) |-> FillNaCell(stripped[i][r])]]
  IN IF objects \cap shared # {}
       THEN [raised |-> TRUE, frame |-> frame]
       ELSE [raised |-> FALSE, frame |-> [columns |-> labels, data |-> filled]]

\* labels of the two columns: 'Sale Price' and 'Notes', 'Sale Price' and
\* 'sale_price'
CleanLabelsPool ==
  {
     << <<"S", "a", "l", "e", " ", "P", "r", "i", "c", "e">>, <<"N", "o", "t", "e", "s">> >>,
     << <<"S", "a", "l", "e", " ", "P", "r", "i", "c", "e">>,
        <<"s", "a", "l", "e", "_", "p", "r", "i", "c", "e">> >>
  }

\* cells: ' a b ', None, 42
CleanCellPool == { Str(<<" ", "a", " ", "b", " ">>), Null, Num42 }

CleanIdle ==
  /\ clean_in = [columns |-> <<>>, data |-> <<>>]
  /\ clean_out = clean_in
  /\ clean_pc = "idle"

InitClean ==
  /\ \E labels \in CleanLabelsPool, n \in 0..MaxRows :
       \E c1 \in [1..n -> CleanCellPool], c2 \in [1..n -> CleanCellPool] :
          clean_in = [columns |-> labels, data |-> << c1, c2 >>]
  /\ clean_out = [columns |-> <<>>, data |-> <<>>]
  /\ clean_pc = "ready"

\* cleaned_df = clean_data(df)
CallCleanData ==
  /\ clean_pc = "ready"
  /\ LET res == clean_data(clean_in)
     IN IF res.raised
          THEN /\ clean_pc' = "raised"
               /\ UNCHANGED clean_out
          ELSE /\ clean_pc' = "returned"
               /\ clean_out' = res.frame
  /\ UNCHANGED clean_in

(***************************************************************************)
(* best_match_score on an arbitrary query and list of choices              *)
(***************************************************************************)
\* bound: the length of the list of choices
MaxChoices == 3

\* 'ab', 'ba', 'a b', 'b a', 'abc'
MatchStringPool ==
  { <<"a", "b">>, <<"b", "a">>, <<"a", " ", "b">>, <<"b", " ", "a">>, <<"a", "b", "c">> }

MatchIdle ==
  /\ match_query = <<>>
  /\ match_choices = <<>>
  /\ match_result = [match |-> <<>>, score |-> 0]
  /\ match_pc = "idle"

InitMatch ==
  /\ match_query \in MatchStringPool
  /\ match_choices \in SeqsOf(MatchStringPool, 1, MaxChoices)
  /\ match_result = [match |-> <<>>, score |-> 0]
  /\ match_pc = "ready"

\* match, score = best_match_score(query, choices, scorer=token_ratio)
CallBestMatchScore ==
  /\ match_pc = "ready"
  /\ match_result' = best_match_score(match_query, match_choices, "token_ratio")
  /\ match_pc' = "done"
  /\ UNCHANGED << match_query, match_choices >>

(***************************************************************************)
(* The lookup built from an arbitrary configuration                        *)
(***************************************************************************)
\* bounds: the entries of a configuration, and the aliases of an entry
MaxEntries == 2

MaxAliases == 2

ConfigNames == { <<"A">>, <<"B">> }

ConfigAliases == { <<"a">>, <<"b">>, <<"B">> }

ConfigPool ==
  SeqsOf([ name : ConfigNames, aliases : SeqsOf(ConfigAliases, 0, MaxAliases) ],
         1, MaxEntries)

InitRegistry ==
  /\ config \in ConfigPool
  /\ alias_to_canonical = <<>>
  /\ registry_pc = "ready"

\* the loop of data_loader.py:50-56 and data_cleaner.py:67-73; it has no
\* path that raises
BuildRegistry ==
  /\ registry_pc = "ready"
  /\ alias_to_canonical' = BuildAliasToCanonical(config)
  /\ registry_pc' = "built"
  /\ UNCHANGED config

(***************************************************************************)
(* Properties of the column mapping (SpecColumns)                          *)
(***************************************************************************)
\* the strings a configuration offers as candidates, and the canonical
\* names that list a string as their name or as one of their aliases
Claimed(entry) == { entry.name } \cup Range(entry.aliases)

Candidates(entries) == UNION { Claimed(entries[i]) : i \in 1..Len(entries) }

Owners(entries, k) ==
  { entries[i].name : i \in { i \in 1..Len(entries) : k \in Claimed(entries[i]) } }

CanonicalNames(entries) == { entries[i].name : i \in 1..Len(entries) }

\* for each header name of the pool: its highest token_ratio over the
\* candidates, the candidates that reach it, and its highest plain ratio
ColumnBestScore ==
  [ q \in ColumnNamePool |->
      Max({ token_ratio(q, k) : k \in Candidates(EXPECTED_COLUMNS) }) ]

ColumnBestCandidates ==
  [ q \in ColumnNamePool |->
      { k \in Candidates(EXPECTED_COLUMNS) : token_ratio(q, k) = ColumnBestScore[q] } ]

ColumnBestPlainRatio ==
  [ q \in ColumnNamePool |->
      Max({ ratio(q, k) : k \in Candidates(EXPECTED_COLUMNS) }) ]

\* C1: after the column mapping, a column whose best score over all
\* canonical names and aliases is at least 85 is mapped to the canonical name
\* that owns a candidate reaching that score, and a column whose best score
\* is below 85 is mapped to its own name; the mapping completes for both.
C1_MappedNameFollowsBestScore ==
  load_pc = "mapped" =>
    \A i \in 1..Len(columns) :
      /\ DictHas(mapping, columns[i])
      /\ ColumnBestScore[columns[i]] >= Points(Threshold) =>
           \E k \in ColumnBestCandidates[columns[i]] :
              DictGet(mapping, columns[i]) \in Owners(EXPECTED_COLUMNS, k)
      /\ ColumnBestScore[columns[i]] < Points(Threshold) =>
           DictGet(mapping, columns[i]) = columns[i]

\* a file with a column mapped to a canonical name other than its own name
\* and a column left under its own name
C1_Witness ==
  /\ load_pc = "mapped"
  /\ \E i, j \in 1..Len(columns) :
       /\ ColumnBestScore[columns[i]] >= Points(Threshold)
       /\ DictGet(mapping, columns[i]) # columns[i]
       /\ ColumnBestScore[columns[j]] < Points(Threshold)
       /\ DictGet(mapping, columns[j]) = columns[j]

\* C2: the column mapping leaves exactly one provenance record per input
\* column, in the order of the columns: the i-th record names the i-th
\* column and the name the mapping gives it, matched or not.
C2_OneRecordPerColumnInOrder ==
  load_pc = "mapped" =>
    /\ Len(mapping_meta) = Len(columns)
    /\ \A i \in 1..Len(columns) :
         /\ mapping_meta[i].original_column = columns[i]
         /\ mapping_meta[i].mapped_to = DictGet(mapping, columns[i])

\* two columns, the first unmatched and the second matched, each recorded
C2_Witness ==
  /\ load_pc = "mapped"
  /\ Len(columns) = 2
  /\ Len(mapping_meta) = 2
  /\ mapping_meta[1].score < Points(Threshold)
  /\ mapping_meta[2].score >= Points(Threshold)
  /\ mapping_meta[2].mapped_to # columns[2]

\* lower case, with the spaces removed
FoldCaseAndSpaces(s) == SelectSeq(Lower(s) \o <<>>, LAMBDA c : c # " ")

\* C8: a column whose name is an alias or a canonical name, exactly or up to
\* letter case and spacing, is mapped to the canonical name that owns the
\* alias, with a score of at least 85.
C8_AliasUpToCaseMapsToCanonical ==
  load_pc = "mapped" =>
    \A i \in 1..Len(columns) :
      \A k \in Candidates(EXPECTED_COLUMNS) :
        FoldCaseAndSpaces(columns[i]) = FoldCaseAndSpaces(k) =>
          /\ DictGet(mapping, columns[i]) \in Owners(EXPECTED_COLUMNS, k)
          /\ mapping_meta[i].score >= Points(Threshold)

\* C9: column names are scored with the weighted ratio, a scoring mode
\* other than the token-sort ratio of value normalization.  The weighted
\* ratio of two strings is never below their plain ratio, so the score
\* recorded for a column is at least its plain ratio to every candidate.
C9_ColumnScoreIsWeightedRatio ==
  load_pc = "mapped" =>
    \A i \in 1..Len(columns) :
      mapping_meta[i].score >= ColumnBestPlainRatio[columns[i]]

(***************************************************************************)
(* Properties of load_csv_file past the column mapping (SpecColumns,       *)
(* SpecLoad) and of handle_upload (SpecUpload, SpecIntake)                 *)
(***************************************************************************)
\* columns i and j both score at least 85 and their best candidates belong
\* to the same canonical name
ShareCanonical(i, j, name) ==
  /\ i # j
  /\ ColumnBestScore[columns[i]] >= Points(Threshold)
  /\ ColumnBestScore[columns[j]] >= Points(Threshold)
  /\ \E k \in ColumnBestCandidates[columns[i]] : name \in Owners(EXPECTED_COLUMNS, k)
  /\ \E k \in ColumnBestCandidates[columns[j]] : name \in Owners(EXPECTED_COLUMNS, k)

\* C18: when two or more columns of the file each score at least 85 against
\* the same canonical name, all of them are mapped to it and each keeps its
\* own provenance record; none of them is dropped, renamed apart or
\* flagged, and no error is raised.
C18_SharedCanonicalNameKept ==
  load_pc = "mapped" =>
    \A i, j \in 1..Len(columns) :
      \A name \in CanonicalNames(EXPECTED_COLUMNS) :
        ShareCanonical(i, j, name) =>
          /\ DictGet(mapping, columns[i]) = name
          /\ DictGet(mapping, columns[j]) = name
          /\ Len(mapping_meta) = Len(columns)
          /\ mapping_meta[i].original_column = columns[i]
          /\ mapping_meta[i].mapped_to = name
          /\ mapping_meta[j].original_column = columns[j]
          /\ mapping_meta[j].mapped_to = name
          /\ load_result = "returned"

\* column c was read with an integer dtype and holds a null
IntegerWithNull(c) ==
  IsIntegerDtype(read_dtypes[c]) /\ HasKind(csv_data[c], "null")

StringDtypes == { "object", "string[pyarrow]" }

\* the analysis gave column c a type that one of its cells cannot take
NotCoercible(c) ==
  /\ column_info[c] \in { "int64", "datetime64" }
  /\ HasKind(csv_data[c], "text")

\* C14: type coercion never raises: when a column cannot be coerced to the
\* type inferred for it, load_csv_file still gets past its read of the file
\* and leaves the column a string column.
C14_CoercionNeverRaises ==
  (load_pc = "mapped" /\ load_line # 93) =>
    \A c \in 1..Len(columns) :
      NotCoercible(c) =>
        /\ load_line \notin { 113, 116 }
        /\ df_dtypes[c] \in StringDtypes

\* C15: in handle_upload a column whose label holds "date", "time", "month"
\* or "year" and some of whose values do not parse as dates is still
\* converted to a datetime column, in which exactly the values that do not
\* parse (and the missing ones) are null.
C15_UnparseableDatesBecomeNull ==
  upload_result = "True" =>
    \A c \in 1..Len(upload_columns) :
      (IsDateColumn(upload_columns[c]) /\ HasKind(upload_data[c], "text")) =>
        /\ session_df.dtypes[c] = "datetime64[ns]"
        /\ \A r \in 1..Len(upload_data[c]) :
             session_df.data[c][r] = "NaT" <=> upload_data[c][r] \in { "text", "null" }

\* a file without columns or without rows
EmptyFile(cols, data) == cols = <<>> \/ Len(data[1]) = 0

\* C16: a file with no rows or no columns is a reported failure:
\* load_csv_file raises and handle_upload returns (False, message); it is
\* never returned or stored as a success.
C16_EmptyFileReported ==
  /\ (load_pc # "ready" /\ file_exists /\ EmptyFile(columns, csv_data)) =>
       load_result \in { "ValueError", "EmptyDataError", "AttributeError" }
  /\ (upload_pc = "done" /\ upload_present /\ EmptyFile(upload_columns, upload_data)) =>
       /\ upload_result = "False"
       /\ session_df = NothingStored

\* a file with two columns and no rows, given to both
C16_Witness ==
  /\ Len(columns) = 2
  /\ EmptyFile(columns, csv_data)
  /\ load_line = 136
  /\ load_result = "ValueError"
  /\ upload_line = 75
  /\ upload_result = "False"

(***************************************************************************)
(* Properties of value normalization (SpecValues)                          *)
(***************************************************************************)
\* the column normalize_lead_sources works on: the first whose label, in
\* lower case and with "_" for " ", is "leadsource" or "lead_source"; 0 if
\* there is none
IsLeadSourceLabel(label) ==
  NormalizeLabel(label) \o <<>> \in
    { <<"l", "e", "a", "d", "s", "o", "u", "r", "c", "e">>,
      <<"l", "e", "a", "d", "_", "s", "o", "u", "r", "c", "e">> }

LeadCol(frame) ==
  IF \E c \in 1..Len(frame.columns) : IsLeadSourceLabel(frame.columns[c])
    THEN CHOOSE c \in 1..Len(frame.columns) :
           /\ IsLeadSourceLabel(frame.columns[c])
           /\ \A b \in 1..(c - 1) : ~IsLeadSourceLabel(frame.columns[b])
    ELSE 0

CanonicalCells == { Str(n) : n \in CanonicalNames(LEAD_SOURCES) }

\* for each string of the value pool: its highest token_ratio over the
\* lead-source candidates
LeadBestScore ==
  [ v \in { c \in LeadValuePool : c.t = "str" } |->
      Max({ token_ratio(v.s, k) : k \in Candidates(LEAD_SOURCES) }) ]

\* the cells of a column that are strings, in row order
StringCells(col) == SelectSeq(col, LAMBDA c : c.t = "str")

\* C3: in every provenance record of normalize_lead_sources, normalized_to
\* is a canonical lead-source name when the score is at least 85 and is the
\* original value when the score is below 85; and every string value whose
\* best score is below 85 is recorded, with that best score.
C3_RecordFollowsThreshold ==
  returned = "pair" =>
    /\ \A r \in 1..Len(normalization_meta) :
         /\ normalization_meta[r].score >= Points(Threshold) =>
              normalization_meta[r].normalized_to \in CanonicalCells
         /\ normalization_meta[r].score < Points(Threshold) =>
              normalization_meta[r].normalized_to = normalization_meta[r].original_value
    /\ \A i \in 1..Len(df_prev.data[LeadCol(df_prev)]) :
         LET cell == df_prev.data[LeadCol(df_prev)][i]
         IN (cell.t = "str" /\ LeadBestScore[cell] < Points(Threshold)) =>
              \E r \in 1..Len(normalization_meta) :
                 /\ normalization_meta[r].original_value = cell
                 /\ normalization_meta[r].score = LeadBestScore[cell]

\* a call that recorded a value normalized to another, canonical, value and
\* a value below the threshold
C3_Witness ==
  /\ returned = "pair"
  /\ \E r, q \in 1..Len(normalization_meta) :
       /\ normalization_meta[r].score >= Points(Threshold)
       /\ normalization_meta[r].normalized_to # normalization_meta[r].original_value
       /\ normalization_meta[q].score < Points(Threshold)
       /\ normalization_meta[q].score > 0

\* C4: normalize_lead_sources leaves one provenance record per row of the
\* lead-source column, in row order, a null or non-string value included:
\* the records are as many as the rows, and the i-th is about the i-th row.
C4_OneRecordPerRow ==
  returned = "pair" =>
    /\ Len(normalization_meta) = Len(df_prev.data[LeadCol(df_prev)])
    /\ \A i \in 1..Len(normalization_meta) :
         normalization_meta[i].original_value = df_prev.data[LeadCol(df_prev)][i]

\* C5: a call of normalize_lead_sources keeps the labels, the number of
\* rows and every column other than the lead-source column; in the
\* lead-source column each row holds its own former value or a canonical
\* name, and a null or non-string value is unchanged.
C5_OnlyLeadSourceStringsChange ==
  calls > 0 =>
    /\ df.columns = df_prev.columns
    /\ Len(df.data) = Len(df_prev.data)
    /\ \A c \in 1..Len(df.data) :
         /\ Len(df.data[c]) = Len(df_prev.data[c])
         /\ c # LeadCol(df_prev) => df.data[c] = df_prev.data[c]
         /\ c = LeadCol(df_prev) =>
              \A i \in 1..Len(df.data[c]) :
                 /\ df_prev.data[c][i].t # "str" => df.data[c][i] = df_prev.data[c][i]
                 /\ df.data[c][i] \in { df_prev.data[c][i] } \cup CanonicalCells

\* a call on a frame with two lead-source labels that changed a string of
\* the first column, next to a null, and left the second column alone
C5_Witness ==
  /\ calls = 1
  /\ returned = "pair"
  /\ LeadCol(df_prev) = 1
  /\ IsLeadSourceLabel(df_prev.columns[2])
  /\ Len(df.data[1]) = 2
  /\ \E i, j \in 1..2 :
       /\ df_prev.data[1][i] = Null
       /\ df.data[1][i] = Null
       /\ df_prev.data[1][j].t = "str"
       /\ df.data[1][j] # df_prev.data[1][j]
  /\ df.data[2] = << OtherCell, OtherCell >>

\* C10: normalizing a canonical lead-source name yields that name, with a
\* score of at least 85, and a second call of normalize_lead_sources on the
\* frame changes no value.
C10_NormalizationIdempotent ==
  /\ returned = "pair" =>
       \A i \in 1..Len(df_prev.data[LeadCol(df_prev)]) :
         LET cell == df_prev.data[LeadCol(df_prev)][i]
         IN cell \in CanonicalCells =>
              /\ df.data[LeadCol(df_prev)][i] = cell
              /\ \E r \in 1..Len(normalization_meta) :
                    /\ normalization_meta[r].original_value = cell
                    /\ normalization_meta[r].normalized_to = cell
                    /\ normalization_meta[r].score >= Points(Threshold)
  /\ calls >= 2 => df = df_prev

\* a second call on a column that holds a canonical name and a string
\* below the threshold
C10_Witness ==
  /\ calls = 2
  /\ returned = "pair"
  /\ \E i, j \in 1..Len(df.data[LeadCol(df)]) :
       /\ df.data[LeadCol(df)][i] \in CanonicalCells
       /\ df.data[LeadCol(df)][j].t = "str"
       /\ LeadBestScore[df.data[LeadCol(df)][j]] < Points(Threshold)

\* C19: normalize_lead_sources returns a pair (dataset, records) on every
\* path; when the dataset has no lead-source column the pair is the dataset
\* unchanged and an empty list of records.
C19_ReturnsPairOnEveryPath ==
  calls > 0 =>
    /\ returned = "pair"
    /\ LeadCol(df_prev) = 0 => df = df_prev /\ normalization_meta = <<>>

(***************************************************************************)
(* Properties of the lookup (SpecRegistry)                                 *)
(***************************************************************************)
\* an alias listed under two different canonical names
AmbiguousAlias(entries) ==
  \E i, j \in 1..Len(entries) :
    /\ entries[i].name # entries[j].name
    /\ Range(entries[i].aliases) \cap Range(entries[j].aliases) # {}

\* no string is a name or an alias of two entries
NoSharedString(entries) ==
  \A i, j \in 1..Len(entries) :
    i # j => Claimed(entries[i]) \cap Claimed(entries[j]) = {}

\* C6: building the lookup from a configuration that lists one alias under
\* two different canonical names ends in a configuration error, never in a
\* lookup.
C6_AmbiguousAliasRejected ==
  (registry_pc # "ready" /\ AmbiguousAlias(config)) => registry_pc = "error"

\* C7: in the lookup built from a configuration in which no string is
\* claimed by two entries, every alias and every name is a key that resolves
\* to the name of its entry, and every key resolves to a name of the
\* configuration.
C7_LookupResolvesToOwner ==
  (registry_pc = "built" /\ NoSharedString(config)) =>
    /\ \A i \in 1..Len(config) :
         \A k \in Claimed(config[i]) :
            /\ DictHas(alias_to_canonical, k)
            /\ DictGet(alias_to_canonical, k) = config[i].name
    /\ \A n \in 1..Len(alias_to_canonical) :
         alias_to_canonical[n].value \in CanonicalNames(config)
    /\ IsInjective(DictKeys(alias_to_canonical))

\* a lookup built from two entries with an alias each
C7_Witness ==
  /\ registry_pc = "built"
  /\ NoSharedString(config)
  /\ Len(config) = 2
  /\ config[1].aliases # <<>>
  /\ config[2].aliases # <<>>
  /\ Len(alias_to_canonical) = 4

(***************************************************************************)
(* Properties of to_snake_case (SpecSnake)                                 *)
(***************************************************************************)
\* C11: to_snake_case is idempotent: applied to its own result it returns
\* that result unchanged, to_snake_case(to_snake_case(h)) = to_snake_case(h)
\* for every header h.
C11_SnakeCaseIdempotent ==
  \A i \in 2..Len(snake_out) : snake_out[i] = snake_out[i - 1]

\* a header that to_snake_case changes to a name that is not empty, and
\* the result of the second application
C11_Witness ==
  /\ Len(snake_out) >= 2
  /\ snake_out[1] # snake_in
  /\ snake_out[1] # <<>>

\* the letters and digits of s, in order
AlnumsOf(s) == SelectSeq(s, LAMBDA c : IsAlnum(c))

\* the number of letters and digits among the first i characters of s
AlnumsUpTo(s, i) == Len(AlnumsOf(SubSeq(s, 1, i)))

\* the position in out of its k-th character that is not the separator
LetterPos(out, k) ==
  CHOOSE p \in 1..Len(out) :
    /\ out[p] # "_"
    /\ Len(SelectSeq(SubSeq(out, 1, p), LAMBDA c : c # "_")) = k

\* the k-th letter or digit of out is followed by the separator
SeparatorAfter(out, k) ==
  LET p == LetterPos(out, k) IN p < Len(out) /\ out[p + 1] = "_"

LowerToUpperAt(s, i) == i < Len(s) /\ IsLower(s[i]) /\ IsUpper(s[i + 1])

\* s[i] and s[j] are letters or digits and a run of other characters lies
\* between them
RunBetween(s, i, j) ==
  /\ i + 1 < j
  /\ IsAlnum(s[i])
  /\ IsAlnum(s[j])
  /\ \A k \in (i + 1)..(j - 1) : ~IsAlnum(s[k])

\* C12: the result of to_snake_case holds only lower-case letters, digits
\* and the separator "_", never two separators in a row, and neither starts
\* nor ends with a separator; its letters and digits are those of the
\* header, lower-cased and in order, and a separator stands at every
\* transition from a lower-case to an upper-case letter and in place of
\* every run of other characters between two of the header's letters or
\* digits.
C12_SnakeCaseShape ==
  snake_out # <<>> =>
    LET out == snake_out[1]
    IN /\ \A p \in 1..Len(out) : IsLower(out[p]) \/ IsDigit(out[p]) \/ out[p] = "_"
       /\ \A p \in 1..(Len(out) - 1) : ~(out[p] = "_" /\ out[p + 1] = "_")
       /\ out # <<>> => out[1] # "_" /\ out[Len(out)] # "_"
       /\ SelectSeq(out, LAMBDA c : c # "_") = Lower(AlnumsOf(snake_in)) \o <<>>
       /\ \A i \in 1..Len(snake_in) :
            LowerToUpperAt(snake_in, i) => SeparatorAfter(out, AlnumsUpTo(snake_in, i))
       /\ \A i, j \in 1..Len(snake_in) :
            RunBetween(snake_in, i, j) => SeparatorAfter(out, AlnumsUpTo(snake_in, i))

\* a header with a transition from lower to upper case and a run of other
\* characters inside, converted
C12_Witness ==
  /\ snake_out # <<>>
  /\ \E i \in 1..Len(snake_in) : LowerToUpperAt(snake_in, i)
  /\ \E i, j \in 1..Len(snake_in) : RunBetween(snake_in, i, j)

(***************************************************************************)
(* Properties of clean_data (SpecClean)                                    *)
(***************************************************************************)
\* the cell the cleaned dataset is to hold for a cell of the input
CleanedCell(cell) ==
  CASE cell.t = "null" -> Str(<<>>)
    [] cell.t = "str"  -> Str(Strip(cell.s, " "))
    [] OTHER           -> cell

\* C20: clean_data returns a dataset with as many rows and columns as its
\* input, in the same order, in which each cell is the empty string if the
\* input cell was null, the input string without its leading and trailing
\* white space if it was a string, and the input value unchanged otherwise;
\* no value that is not null is lost.
C20_CleanDataKeepsEveryValue ==
  clean_pc \in { "returned", "raised" } =>
    /\ clean_pc = "returned"
    /\ Len(clean_out.columns) = Len(clean_in.columns)
    /\ Len(clean_out.data) = Len(clean_in.data)
    /\ \A c \in 1..Len(clean_in.data) :
         /\ Len(clean_out.data[c]) = Len(clean_in.data[c])
         /\ \A r \in 1..Len(clean_in.data[c]) :
              clean_out.data[c][r] = CleanedCell(clean_in.data[c][r])

(***************************************************************************)
(* Properties of best_match_score (SpecMatch)                              *)
(***************************************************************************)
\* the score of every choice, computed by the scorer alone
ChoiceScores == [i \in 1..Len(match_choices) |-> token_ratio(match_query, match_choices[i])]

BestChoiceScore == Max(Range(ChoiceScores))

\* C17: for a query and a list of choices that is not empty,
\* best_match_score returns a choice whose score is the highest of the list
\* under the scorer, together with that score; when several choices reach
\* the highest score, the first of them in the list is returned.
C17_FirstBestChoiceReturned ==
  match_pc = "done" =>
    /\ match_result.score = BestChoiceScore
    /\ \E i \in 1..Len(match_choices) :
         /\ ChoiceScores[i] = BestChoiceScore
         /\ \A j \in 1..(i - 1) : ChoiceScores[j] < BestChoiceScore
         /\ match_result.match = match_choices[i]

\* two different choices reach the highest score, after a choice that does
\* not
C17_Witness ==
  /\ match_pc = "done"
  /\ \E i, j \in 1..Len(match_choices) :
       /\ 1 < i
       /\ i < j
       /\ ChoiceScores[1] < BestChoiceScore
       /\ ChoiceScores[i] = BestChoiceScore
       /\ ChoiceScores[j] = BestChoiceScore
       /\ match_choices[i] # match_choices[j]

(***************************************************************************)
(* PDFParser (new_pdf_parser.py)                                           *)
(*                                                                         *)
(* The environment of one parser is a record pdf_in:                       *)
(*   exists        os.path.exists(file_path)                               *)
(*   readable      open(file_path, "rb") succeeds                          *)
(*   popen_raises  subprocess.Popen raises (node cannot be started)        *)
(*   returncode    return code of the extractor process                    *)
(*   output_valid  the extractor's output file holds valid JSON            *)
(*   tables        the 'tables' list of the output; a table is "ok",       *)
(*                 "bad" (pd.DataFrame raises) or "unmappable" (the        *)
(*                 mapper's process_dataframe raises)                      *)
(*   metadata      the output has a 'metadata' object                      *)
(*   mapper        self.mapper is set                                      *)
(* An outcome records what the call gave back and what it did to the disk  *)
(* and the process table: temp_created temporary files were created,       *)
(* temp_left of them still exist when the call ends.                       *)
(***************************************************************************)
MaxTables == 2

MaxPdfCalls == 2

TableKinds == { "ok", "bad", "unmappable" }

InitialResults ==
  [ tables_found |-> 0, pages_processed |-> 0, extraction_method |-> "None",
    extraction_score |-> 0, processing_issues |-> <<>> ]

NoResults ==
  [ tables_found |-> -1, pages_processed |-> -1, extraction_method |-> "n/a",
    extraction_score |-> -1, processing_issues |-> <<>> ]

AppendIssue(results, issue) ==
  [ results EXCEPT !.processing_issues = Append(@, issue) ]

\* lines 109-114: the metadata of the extractor's output, with the defaults
UpdateResults(results, in) ==
  [ results EXCEPT
      !.tables_found = Len(in.tables),
      !.pages_processed = IF in.metadata THEN 1 ELSE 0,
      !.extraction_method = IF in.metadata THEN "lattice" ELSE "unknown",
      !.extraction_score = IF in.metadata THEN 95 ELSE 0 ]

TableFails(table, mapper) ==
  \/ table = "bad"
  \/ mapper /\ table = "unmappable"

ConvertTable_DropsSilently(table, mapper, i, acc) ==
  IF TableFails(table, mapper)
  THEN acc
  ELSE [ acc EXCEPT !.tables = Append(@, i) ]

\* lines 119-127, one pass of the loop: acc is [tables, results]; a converted
\* table is kept by its position in the extractor's list
ConvertTable(table, mapper, i, acc) ==
  IF TableFails(table, mapper)
  THEN [ acc EXCEPT !.results = AppendIssue(@, "Error processing table") ]
  ELSE [ acc EXCEPT !.tables = Append(@, i) ]

\* lines 117-127
RECURSIVE ConvertTables(_, _, _, _)
ConvertTables(tables, mapper, i, acc) ==
  IF i > Len(tables) THEN acc
  ELSE ConvertTables(tables, mapper, i + 1,
                     ConvertTable(tables[i], mapper, i, acc))

Outcome(raised, tables, results, reply, created, left, started) ==
  [ raised |-> raised, tables |-> tables, results |-> results, reply |-> reply,
    temp_created |-> created, temp_left |-> left, process_started |-> started ]

NoOutcome == Outcome("none", <<>>, NoResults, "none", 0, 0, FALSE)

\* lines 131-135
CaughtInParseFile(results, created, started) ==
  Outcome("none", <<>>, AppendIssue(results, "Error in PDF extraction"),
          "none", created, created, started)

ExtractionFailed_Raises(results) ==
  Outcome("RuntimeError", <<>>, NoResults, "none", 1, 1, TRUE)

\* lines 99-102
ExtractionFailed(results) ==
  Outcome("none", <<>>, AppendIssue(results, "PDF extraction failed"),
          "none", 1, 1, TRUE)

ParseFile_ChecksExistenceLate(in) ==
  IF ~in.exists
  THEN Outcome("FileNotFoundError", <<>>, NoResults, "none", 1, 1, FALSE)
  ELSE CaughtInParseFile(InitialResults, 1, FALSE)

\* lines 58-135
ParseFile(in) ==
  IF ~in.exists
  THEN Outcome("FileNotFoundError", <<>>, NoResults, "none", 0, 0, FALSE)
  ELSE IF ~in.readable
  THEN CaughtInParseFile(InitialResults, 0, FALSE)
  ELSE IF in.popen_raises
  THEN CaughtInParseFile(InitialResults, 1, FALSE)
  ELSE IF in.returncode # 0
  THEN ExtractionFailed(InitialResults)
  ELSE IF ~in.output_valid
  THEN CaughtInParseFile(InitialResults, 1, TRUE)
  ELSE LET conv == ConvertTables(in.tables, in.mapper, 1,
                     [ tables |-> <<>>,
                       results |-> UpdateResults(InitialResults, in) ])
       IN  Outcome("none", conv.tables, conv.results, "none", 1, 1, TRUE)

\* lines 196-240: the finally clause unlinks the temporary file on every path
CallTypescriptExtractor(in) ==
  IF in.popen_raises
  THEN Outcome("none", <<>>, NoResults, "failure", 1, 0, FALSE)
  ELSE IF in.returncode # 0
  THEN Outcome("none", <<>>, NoResults, "failure", 1, 0, TRUE)
  ELSE IF ~in.output_valid
  THEN Outcome("none", <<>>, NoResults, "failure", 1, 0, TRUE)
  ELSE Outcome("none", <<>>, NoResults, "result", 1, 0, TRUE)

PdfInputs ==
  [ exists : BOOLEAN, readable : BOOLEAN, popen_raises : BOOLEAN,
    returncode : { 0, 1 }, output_valid : BOOLEAN,
    tables : SeqsOf(TableKinds, 0, MaxTables),
    metadata : BOOLEAN, mapper : BOOLEAN ]

NoPdf ==
  [ exists |-> FALSE, readable |-> FALSE, popen_raises |-> FALSE,
    returncode |-> 0, output_valid |-> FALSE, tables |-> <<>>,
    metadata |-> FALSE, mapper |-> FALSE ]

PdfIdle ==
  /\ pdf_in = NoPdf
  /\ pdf_call = "idle"
  /\ pdf_out = NoOutcome
  /\ pdf_calls = 0
  /\ temp_files = 0

InitPdf ==
  /\ pdf_in \in PdfInputs
  /\ pdf_call = "none"
  /\ pdf_out = NoOutcome
  /\ pdf_calls = 0
  /\ temp_files = 0

parse_file ==
  /\ pdf_call # "idle"
  /\ pdf_calls < MaxPdfCalls
  /\ pdf_call' = "parse_file"
  /\ pdf_out' = ParseFile(pdf_in)
  /\ temp_files' = temp_files + ParseFile(pdf_in).temp_left
  /\ pdf_calls' = pdf_calls + 1
  /\ UNCHANGED pdf_in

_call_typescript_extractor ==
  /\ pdf_call # "idle"
  /\ pdf_calls < MaxPdfCalls
  /\ pdf_call' = "_call_typescript_extractor"
  /\ pdf_out' = CallTypescriptExtractor(pdf_in)
  /\ temp_files' = temp_files + CallTypescriptExtractor(pdf_in).temp_left
  /\ pdf_calls' = pdf_calls + 1
  /\ UNCHANGED pdf_in

PdfCall == parse_file \/ _call_typescript_extractor

(***************************************************************************)
(* Claims about PDFParser (SpecPdf)                                        *)
(***************************************************************************)
ParseFileCalled == pdf_call = "parse_file"

Issues == pdf_out.results.processing_issues

CountIssue(issues, issue) ==
  Cardinality({ i \in 1..Len(issues) : issues[i] = issue })

\* C24: parse_file on a path that does not exist raises FileNotFoundError, and
\* it has then created no temporary file and started no subprocess.
C24_MissingFileRaisesFirst ==
  (ParseFileCalled /\ ~pdf_in.exists)
    => /\ pdf_out.raised = "FileNotFoundError"
       /\ pdf_out.temp_created = 0
       /\ ~pdf_out.process_started

C24_Witness ==
  /\ ParseFileCalled
  /\ ~pdf_in.exists
  /\ pdf_out.raised = "FileNotFoundError"

\* C25: when the extractor process ends with a non-zero return code,
\* parse_file raises nothing and returns an empty list of tables and results
\* holding a "PDF extraction failed" entry, tables_found 0, extraction_method
\* None and extraction_score 0.
ExtractorFailed ==
  /\ pdf_in.exists
  /\ pdf_in.readable
  /\ ~pdf_in.popen_raises
  /\ pdf_in.returncode # 0

C25_ExtractorFailureReported ==
  (ParseFileCalled /\ ExtractorFailed)
    => /\ pdf_out.raised = "none"
       /\ pdf_out.tables = <<>>
       /\ CountIssue(Issues, "PDF extraction failed") >= 1
       /\ pdf_out.results.tables_found = 0
       /\ pdf_out.results.extraction_method = "None"
       /\ pdf_out.results.extraction_score = 0

C25_Witness ==
  /\ ParseFileCalled
  /\ ExtractorFailed
  /\ Issues = << "PDF extraction failed" >>

\* C26: when the extractor ends with return code 0 and its output file is not
\* valid JSON, parse_file raises a JSON decode error to its caller.
InvalidOutput ==
  /\ pdf_in.exists
  /\ pdf_in.readable
  /\ ~pdf_in.popen_raises
  /\ pdf_in.returncode = 0
  /\ ~pdf_in.output_valid

C26_InvalidJsonRaised ==
  (ParseFileCalled /\ InvalidOutput) => pdf_out.raised = "JSONDecodeError"

\* C27: a table whose conversion fails is skipped with an "Error processing
\* table" entry and the remaining tables are still converted: tables_found is
\* the number of tables the extractor returned, and the tables returned plus
\* the "Error processing table" entries add up to tables_found.
TablesRead ==
  /\ pdf_in.exists
  /\ pdf_in.readable
  /\ ~pdf_in.popen_raises
  /\ pdf_in.returncode = 0
  /\ pdf_in.output_valid

C27_FailedTableSkipped ==
  /\ (ParseFileCalled /\ TablesRead)
       => /\ pdf_out.raised = "none"
          /\ pdf_out.results.tables_found = Len(pdf_in.tables)
          /\ \A i \in 1..Len(pdf_in.tables) :
               TableFails(pdf_in.tables[i], pdf_in.mapper)
                 <=> i \notin Range(pdf_out.tables)
  /\ (ParseFileCalled /\ pdf_out.raised = "none")
       => Len(pdf_out.tables) + CountIssue(Issues, "Error processing table")
            = pdf_out.results.tables_found

C27_Witness ==
  /\ ParseFileCalled
  /\ TablesRead
  /\ Len(pdf_in.tables) = 2
  /\ TableFails(pdf_in.tables[1], pdf_in.mapper)
  /\ pdf_out.tables = << 2 >>
  /\ Issues = << "Error processing table" >>

\* C30: when a call of parse_file or of _call_typescript_extractor has
\* returned or raised, no temporary JSON output file it created is left.
C30_TempFilesDeleted ==
  pdf_call \in { "parse_file", "_call_typescript_extractor" }
    => /\ pdf_out.temp_left = 0
       /\ temp_files = 0

(***************************************************************************)
(* token_ratio on two strings, in both argument orders                     *)
(***************************************************************************)
\* bound: the number of words of a string given to token_ratio
MaxWords == 3

WordPool == { <<"W", "a", "l", "k">>, <<"I", "n">> }

SeparatorPool == { << " " >>, << " ", " " >> }

\* the words written one after the other with sep between them
RECURSIVE JoinWith(_, _)
JoinWith(words, sep) ==
  IF words = <<>> THEN <<>>
  ELSE IF Len(words) = 1 THEN words[1]
  ELSE words[1] \o sep \o JoinWith(Tail(words), sep)

PhrasePool ==
  { JoinWith(ws, sep) : ws \in SeqsOf(WordPool, 1, MaxWords), sep \in SeparatorPool }

ScoreIdle ==
  /\ score_a = <<>>
  /\ score_b = <<>>
  /\ score_ab = 0
  /\ score_ba = 0
  /\ score_pc = "idle"

InitScore ==
  /\ score_a \in PhrasePool
  /\ score_b \in PhrasePool
  /\ score_ab = 0
  /\ score_ba = 0
  /\ score_pc = "ready"

\* token_ratio(a, b) and token_ratio(b, a)
CallTokenRatio ==
  /\ score_pc = "ready"
  /\ score_ab' = token_ratio(score_a, score_b)
  /\ score_ba' = token_ratio(score_b, score_a)
  /\ score_pc' = "done"
  /\ UNCHANGED << score_a, score_b >>

(***************************************************************************)
(* Claims about token_ratio (SpecScore)                                    *)
(***************************************************************************)
Occurrences(words, w) == Cardinality({ i \in 1..Len(words) : words[i] = w })

\* a and b are made of the same words, each as many times, in any order
SameWords(a, b) ==
  LET wa == Split(a)
      wb == Split(b)
  IN  /\ Len(wa) = Len(wb)
      /\ \A w \in Range(wa) \cup Range(wb) : Occurrences(wa, w) = Occurrences(wb, w)

\* C22: for two strings made of the same words in a different order,
\* token_ratio gives the same score in both argument orders, and that score
\* reaches the acceptance threshold of 85.
C22_WordOrderIgnored ==
  (score_pc = "done" /\ SameWords(score_a, score_b))
    => /\ score_ab = score_ba
       /\ score_ab >= Points(Threshold)

C22_Witness ==
  /\ score_pc = "done"
  /\ score_a = <<"W", "a", "l", "k", " ", "I", "n">>
  /\ score_b = <<"I", "n", " ", "W", "a", "l", "k">>
  /\ score_ab = Points(100)
  /\ score_ba = Points(100)

(***************************************************************************)
(* clean_data and normalize_lead_sources on one dataset                    *)
(*                                                                         *)
(* No code of data_cleaner.py calls the one from the other: a client calls *)
(* each at most once on the dataset, in either order.  pipe_steps is the   *)
(* list of the calls that have returned.                                   *)
(***************************************************************************)
\* normalize_lead_sources(frame): the frame and normalization_meta it leaves,
\* and whether it returned the frame alone or the pair
NormalizeLeadSources(frame) ==
  LET lead_source_col == FindLeadSourceCol(frame.columns)
  IN IF lead_source_col = 0
       THEN [ df |-> frame, meta |-> <<>>, returned |-> "df" ]
       ELSE LET atc == BuildAliasToCanonical(LEAD_SOURCES)
                res == ApplyNormalize(frame.data[lead_source_col], 1, atc,
                                      [column |-> <<>>, meta |-> <<>>])
            IN [ df |-> [frame EXCEPT !.data[lead_source_col] = res.column],
                 meta |-> res.meta, returned |-> "pair" ]

\* labels of the two columns: 'Lead Source' and 'Notes', 'Lead Source' and
\* 'lead_source'
PipelineLabelsPool ==
  {
     << <<"L", "e", "a", "d", " ", "S", "o", "u", "r", "c", "e">>, <<"N", "o", "t", "e", "s">> >>,
     << <<"L", "e", "a", "d", " ", "S", "o", "u", "r", "c", "e">>,
        <<"l", "e", "a", "d", "_", "s", "o", "u", "r", "c", "e">> >>
  }

\* cells of the lead-source column: 'walk-in  ', ' Walk In ', 'Walk In',
\* 'Craigslist', None
PipelineValuePool ==
  {
     Str(<<"w", "a", "l", "k", "-", "i", "n", " ", " ">>),
     Str(<<" ", "W", "a", "l", "k", " ", "I", "n", " ">>),
     Str(<<"W", "a", "l", "k", " ", "I", "n">>),
     Str(<<"C", "r", "a", "i", "g", "s", "l", "i", "s", "t">>),
     Null
  }

PipelineIdle ==
  /\ pipe_in = [columns |-> <<>>, data |-> <<>>]
  /\ pipe_df = pipe_in
  /\ pipe_meta = <<>>
  /\ pipe_steps = <<>>
  /\ pipe_pc = "idle"

InitPipeline ==
  /\ \E labels \in PipelineLabelsPool, n \in 0..MaxRows :
       \E lead \in [1..n -> PipelineValuePool] :
          pipe_in = [columns |-> labels, data |-> << lead, [i \in 1..n |-> Num42] >>]
  /\ pipe_df = pipe_in
  /\ pipe_meta = <<>>
  /\ pipe_steps = <<>>
  /\ pipe_pc = "ready"

\* df = clean_data(df)
PipelineClean ==
  /\ pipe_pc = "ready"
  /\ "clean_data" \notin Range(pipe_steps)
  /\ LET res == clean_data(pipe_df)
     IN IF res.raised
          THEN /\ pipe_pc' = "raised"
               /\ UNCHANGED << pipe_df, pipe_steps >>
          ELSE /\ pipe_df' = res.frame
               /\ pipe_steps' = Append(pipe_steps, "clean_data")
               /\ UNCHANGED pipe_pc
  /\ UNCHANGED << pipe_in, pipe_meta >>

\* df, normalization_meta = normalize_lead_sources(df)
PipelineNormalize ==
  /\ pipe_pc = "ready"
  /\ "normalize_lead_sources" \notin Range(pipe_steps)
  /\ LET res == NormalizeLeadSources(pipe_df)
     IN /\ pipe_df' = res.df
        /\ pipe_meta' = res.meta
  /\ pipe_steps' = Append(pipe_steps, "normalize_lead_sources")
  /\ UNCHANGED << pipe_in, pipe_pc >>

PipelineStep == PipelineClean \/ PipelineNormalize

(***************************************************************************)
(* Claims about the cleaner followed by the normalizer (SpecPipeline)      *)
(***************************************************************************)
\* the aliases and canonical names that s differs from only by surrounding
\* whitespace and letter case
AliasesUpToTrimAndCase(s) ==
  { k \in Candidates(LEAD_SOURCES) :
      Lower(Strip(s, " ")) \o <<>> = Lower(k) \o <<>> }

\* C21: the cleaner trims a categorical value before the normalizer scores
\* it, so a value that differs from an alias only by surrounding whitespace
\* and letter case, such as "walk-in  ", is normalized to the canonical name
\* of that alias (WalkIn).
C21_TrimmedValueNormalized ==
  pipe_steps = << "clean_data", "normalize_lead_sources" >> =>
    \A r \in 1..Len(pipe_in.data[1]) :
      LET val == pipe_in.data[1][r]
      IN val.t = "str" =>
           \A k \in AliasesUpToTrimAndCase(val.s) :
             \E o \in Owners(LEAD_SOURCES, k) : pipe_df.data[1][r] = Str(o)

(***************************************************************************)
(* Claims about the dataset load_csv_file returns (SpecLoad)               *)
(***************************************************************************)
\* C29: in the dataset load_csv_file returns, every column carries the name
\* the returned mapping gives for its name in the file, and the data type
\* inferred for a column from the sample is the type asked for that column
\* in the full load.
C29_ReturnedFrameMatchesMapping ==
  load_result = "returned" =>
    \A i \in 1..Len(columns) :
      /\ df_columns[i] = DictGet(mapping, columns[i])
      /\ requested_types[i] = column_info[i]

(***************************************************************************)
(* routes.py: upload_file, analyze, ask_question                           *)
(*                                                                         *)
(* route_file is the file a client uploads: whether its name ends with     *)
(* .csv, its header, the cells of its columns, the data type the analyzer  *)
(* gives every column, and whether the pyarrow backend is there.  Every    *)
(* call of upload_file draws a fresh upload id (uuid4), here the number of *)
(* the call.  metadata_files holds the content of the metadata file of     *)
(* every upload id that has one, upload_files the other files written to   *)
(* UPLOAD_DIR, background_tasks the upload ids given to add_task.          *)
(***************************************************************************)
\* bound: the calls of upload_file
MaxUploads == 2

\* line 143 of data_loader.py returns df, mapping, mapping_meta
LoadReturnArity == 3

\* line 74 of routes.py: df, mapping = load_csv_file(file_path)
UploadUnpackTargets == 2

\* load_csv_file(file_path) as a function of the file: how the call ends,
\* and the mapping and the frame it returns
LoadCsvFile(exists, cols, data, info, arrow, raises, ints_as_dates) ==
  IF ~exists
    THEN [ result |-> "FileNotFoundError", mapping |-> <<>>, frame |-> NoFrame ]
  ELSE IF cols = <<>>
    THEN [ result |-> "EmptyDataError", mapping |-> <<>>, frame |-> NoFrame ]
  ELSE LET atc == BuildAliasToCanonical(EXPECTED_COLUMNS)
           res == MapColumns(cols, 1, atc, [mapping |-> <<>>, mapping_meta |-> <<>>])
           frame == LoadFrame(cols, data, info, res.mapping, arrow, raises, ints_as_dates)
       IN [ result |-> frame.result, mapping |-> res.mapping, frame |-> frame ]

\* a cell of the file as a cell of the frame read from it
CellOf(kind) ==
  CASE kind = "int" -> Num42
    [] kind = "null" -> Null
    [] OTHER -> Str(<< "a" >>)

\* the frame load_csv_file returns, for clean_data
FrameOf(frame, data) ==
  [ columns |-> frame.df_columns,
    data |-> [i \in 1..Len(data) |-> [r \in 1..Len(data[i]) |-> CellOf(data[i][r])]] ]

NoReply ==
  [ route |-> "none", upload_id |-> 0, status |-> 0, detail |-> "",
    column_mapping |-> <<>> ]

Reply(route, upload_id, status, detail, column_mapping) ==
  [ route |-> route, upload_id |-> upload_id, status |-> status,
    detail |-> detail, column_mapping |-> column_mapping ]

\* lines 106-112: the uploaded file and the metadata file are removed
UploadFailed(upload_id) ==
  [ reply |-> Reply("upload_file", upload_id, 500, "Error processing file", <<>>),
    metadata |-> {}, files |-> {}, tasks |-> {} ]

\* lines 79-104: the processed file and the metadata are written, the batch
\* insights are scheduled and the response is returned
UploadStored(upload_id, column_mapping, cleaned) ==
  IF cleaned.raised
    THEN UploadFailed(upload_id)
    ELSE [ reply |-> Reply("upload_file", upload_id, 200, "", column_mapping),
           metadata |-> { [ upload_id |-> upload_id, processed |-> TRUE,
                            column_mapping |-> column_mapping ] },
           files |-> { << upload_id, "csv" >>, << upload_id, "processed" >> },
           tasks |-> { upload_id } ]

\* lines 74-104, load being what load_csv_file(file_path) gave
UploadLoaded(file, upload_id, load) ==
  IF load.result # "returned"
    THEN UploadFailed(upload_id)
  ELSE IF LoadReturnArity # UploadUnpackTargets
    THEN \* ValueError: too many values to unpack
         UploadFailed(upload_id)
  ELSE UploadStored(upload_id, load.mapping,
                    clean_data(FrameOf(load.frame, file.data)))

\* lines 57-112
UploadFile(file, upload_id, ints_as_dates) ==
  IF ~file.csv
    THEN [ reply |-> Reply("upload_file", 0, 400, "Only CSV files are supported", <<>>),
           metadata |-> {}, files |-> {}, tasks |-> {} ]
    ELSE UploadLoaded(file, upload_id,
                      LoadCsvFile(TRUE, file.columns, file.data, file.info,
                                  file.arrow, FALSE, ints_as_dates))

\* what a call of upload_file leaves: its reply, and the files of UPLOAD_DIR
UploadDone(done) ==
  /\ route_reply' = done.reply
  /\ metadata_files' = metadata_files \cup done.metadata
  /\ upload_files' = upload_files \cup done.files
  /\ background_tasks' = background_tasks \cup done.tasks

\* lines 223-266 and 280-313: load_csv_file returns a tuple, which has no
\* to_string, or raises; either is answered with status 500
RequestReply(route, upload_id, metadata) ==
  IF ~\E m \in metadata : m.upload_id = upload_id
    THEN Reply(route, upload_id, 404, "Upload not found", <<>>)
  ELSE IF \E m \in metadata : m.upload_id = upload_id /\ ~m.processed
    THEN Reply(route, upload_id, 400, "File is still being processed", <<>>)
  ELSE Reply(route, upload_id, 500,
             IF route = "analyze" THEN "Error analyzing data"
                                  ELSE "Error answering question", <<>>)

RouteCellPool == { "int", "text" }

RouteTypePool == { "int64", "object" }

NoRouteFile ==
  [ csv |-> FALSE, columns |-> <<>>, data |-> <<>>, info |-> <<>>, arrow |-> FALSE ]

RoutesIdle ==
  /\ route_file = NoRouteFile
  /\ route_reply = NoReply
  /\ uploads = 0
  /\ metadata_files = {}
  /\ upload_files = {}
  /\ background_tasks = {}
  /\ route_pc = "idle"

InitRoutes ==
  /\ \E csv \in BOOLEAN, cols \in FileHeaderPool, arrow \in BOOLEAN, n \in 0..MaxRows :
       \E data \in [1..Len(cols) -> [1..n -> RouteCellPool]],
          info \in [1..Len(cols) -> RouteTypePool] :
            route_file = [ csv |-> csv, columns |-> cols, data |-> data,
                           info |-> info, arrow |-> arrow ]
  /\ route_reply = NoReply
  /\ uploads = 0
  /\ metadata_files = {}
  /\ upload_files = {}
  /\ background_tasks = {}
  /\ route_pc = "ready"

upload_file ==
  /\ route_pc = "ready"
  /\ uploads < MaxUploads
  /\ uploads' = uploads + 1
  /\ \E ints_as_dates \in BOOLEAN :
       UploadDone(UploadFile(route_file, uploads + 1, ints_as_dates))
  /\ UNCHANGED << route_file, route_pc >>

analyze ==
  /\ route_pc = "ready"
  /\ \E upload_id \in 1..MaxUploads :
       route_reply' = RequestReply("analyze", upload_id, metadata_files)
  /\ UNCHANGED << route_file, uploads, metadata_files, upload_files,
                  background_tasks, route_pc >>

ask_question ==
  /\ route_pc = "ready"
  /\ \E upload_id \in 1..MaxUploads :
       route_reply' = RequestReply("ask_question", upload_id, metadata_files)
  /\ UNCHANGED << route_file, uploads, metadata_files, upload_files,
                  background_tasks, route_pc >>

RouteCall == upload_file \/ analyze \/ ask_question

(***************************************************************************)
(* Claims about the routes (SpecRoutes)                                    *)
(***************************************************************************)
\* load_csv_file loads the uploaded file without error
Loads(file) ==
  \A ints_as_dates \in BOOLEAN :
    LoadCsvFile(TRUE, file.columns, file.data, file.info,
                file.arrow, FALSE, ints_as_dates).result = "returned"

MappingOf(file) ==
  LoadCsvFile(TRUE, file.columns, file.data, file.info,
              file.arrow, FALSE, FALSE).mapping

\* C28: upload_file succeeds for every .csv upload that load_csv_file loads
\* without error: it answers with the upload id and the column mapping and
\* has saved metadata with processed = true, so that a later analyze or
\* question request for that upload id is not answered "Upload not found" or
\* "File is still being processed".
C28_LoadableUploadSucceeds ==
  (route_file.csv /\ Loads(route_file)) =>
    /\ route_reply.route = "upload_file" =>
         /\ route_reply.status = 200
         /\ route_reply.upload_id = uploads
         /\ route_reply.column_mapping = MappingOf(route_file)
         /\ \E m \in metadata_files : m.upload_id = uploads /\ m.processed
    /\ (route_reply.route \in { "analyze", "ask_question" }
          /\ route_reply.upload_id <= uploads) =>
         route_reply.detail \notin { "Upload not found", "File is still being processed" }

(***************************************************************************)
(* Several calls of the column mapping of load_csv_file (lines 49-86) and  *)
(* of normalize_lead_sources (lines 67-97), interleaved                    *)
(*                                                                         *)
(* vocabulary is the content of the module schema_config, which every call *)
(* reads.  A call is a record: its kind, the labels and the cells it was   *)
(* given (one cell a label for the column mapping, the cells of the lead   *)
(* source column for the normalization), the cells as they are now, its    *)
(* own alias_to_canonical, the position of its loop (0 before the lookup   *)
(* is built) and what it has computed so far; all but the vocabulary is    *)
(* local to the call.                                                      *)
(***************************************************************************)
\* bound: the calls in progress at the same time
MaxConcurrent == 2

Vocabulary0 == [ columns |-> EXPECTED_COLUMNS, lead |-> LEAD_SOURCES ]

\* labels of the frames given to the column mapping: 'price' and 'ID',
\* 'Sale_Price'
ReconcileInputs ==
  { << <<"p", "r", "i", "c", "e">>, <<"I", "D">> >>,
    << <<"S", "a", "l", "e", "_", "P", "r", "i", "c", "e">> >> }

\* lead source columns given to the normalization: 'Walk In' and
\* 'walk-in  ', None and 'Craigslist'
NormalizeInputs ==
  { << Str(<<"W", "a", "l", "k", " ", "I", "n">>),
       Str(<<"w", "a", "l", "k", "-", "i", "n", " ", " ">>) >>,
    << Null, Str(<<"C", "r", "a", "i", "g", "s", "l", "i", "s", "t">>) >> }

EmptyResult(kind) ==
  IF kind = "reconcile"
    THEN [ mapping |-> <<>>, mapping_meta |-> <<>> ]
    ELSE [ column |-> <<>>, meta |-> <<>> ]

NewCall(kind, names, cells) ==
  [ kind |-> kind, names |-> names, given |-> cells, cells |-> cells,
    atc |-> <<>>, pos |-> 0, acc |-> EmptyResult(kind), done |-> FALSE ]

CallPool ==
  { NewCall("reconcile", names, [i \in 1..Len(names) |-> Num42]) : names \in ReconcileInputs }
    \cup { NewCall("normalize", <<>>, cells) : cells \in NormalizeInputs }

\* the number of passes of the loop of a call
Passes(call) ==
  IF call.kind = "reconcile" THEN Len(call.names) ELSE Len(call.cells)

VocabularyAfterPass_LearnsAlias(vocab, call) ==
  IF call.kind = "reconcile"
    THEN [ vocab EXCEPT !.columns[1].aliases = Append(@, call.names[call.pos]) ]
    ELSE [ vocab EXCEPT !.lead[1].aliases = Append(@, call.cells[call.pos].s) ]

\* neither loop assigns to EXPECTED_COLUMNS, to LEAD_SOURCES or to one of
\* their entries
VocabularyAfterPass(vocab, call) == vocab

\* data_loader.py 50-56, data_cleaner.py 68-73
StartCall(call, vocab) ==
  [ call EXCEPT
      !.atc = BuildAliasToCanonical(IF call.kind = "reconcile"
                                      THEN vocab.columns ELSE vocab.lead),
      !.pos = 1 ]

\* one pass of data_loader.py 60-82, or one call of normalize_value by the
\* apply of data_cleaner.py 97
StepCall(call) ==
  IF call.kind = "reconcile"
    THEN [ call EXCEPT !.acc = MapColumn(call.names[call.pos], call.atc, call.acc),
                       !.pos = @ + 1 ]
    ELSE LET r == normalize_value(call.cells[call.pos], call.atc, call.acc.meta)
         IN [ call EXCEPT
                !.acc = [ column |-> Append(call.acc.column, r.value), meta |-> r.meta ],
                !.pos = @ + 1 ]

\* data_loader.py 86 renames the labels of df_sample; data_cleaner.py 97
\* assigns the new column to the frame
FinishCall(call) ==
  IF call.kind = "reconcile"
    THEN [ call EXCEPT !.done = TRUE ]
    ELSE [ call EXCEPT !.done = TRUE, !.cells = call.acc.column ]

CallsIdle ==
  /\ vocabulary = Vocabulary0
  /\ call_slots = <<>>

InitCalls ==
  /\ vocabulary = Vocabulary0
  /\ call_slots \in [1..MaxConcurrent -> CallPool]

BeginCall ==
  \E s \in 1..Len(call_slots) :
    /\ call_slots[s].pos = 0
    /\ call_slots' = [call_slots EXCEPT ![s] = StartCall(@, vocabulary)]
    /\ UNCHANGED vocabulary

LoopPass ==
  \E s \in 1..Len(call_slots) :
    /\ call_slots[s].pos >= 1
    /\ call_slots[s].pos <= Passes(call_slots[s])
    /\ call_slots' = [call_slots EXCEPT ![s] = StepCall(@)]
    /\ vocabulary' = VocabularyAfterPass(vocabulary, call_slots[s])

EndCall ==
  \E s \in 1..Len(call_slots) :
    /\ call_slots[s].pos = Passes(call_slots[s]) + 1
    /\ ~call_slots[s].done
    /\ call_slots' = [call_slots EXCEPT ![s] = FinishCall(@)]
    /\ UNCHANGED vocabulary

CallsStep == BeginCall \/ LoopPass \/ EndCall

(***************************************************************************)
(* Claims about interleaved calls (SpecCalls)                              *)
(***************************************************************************)
\* what the call gives when no other call runs
ResultAlone(call) ==
  IF call.kind = "reconcile"
    THEN MapColumns(call.names, 1, BuildAliasToCanonical(EXPECTED_COLUMNS),
                    EmptyResult("reconcile"))
    ELSE ApplyNormalize(call.given, 1, BuildAliasToCanonical(LEAD_SOURCES),
                        EmptyResult("normalize"))

\* C23: the column mapping and the value normalization never modify
\* EXPECTED_COLUMNS or LEAD_SOURCES and keep nothing from one call to the
\* next, and the column mapping changes no value of the dataset; so every
\* call, however it is interleaved with other calls, gives the result it
\* gives when run alone.
C23_CallsDoNotInterfere ==
  /\ vocabulary = Vocabulary0
  /\ \A s \in 1..Len(call_slots) :
       /\ call_slots[s].kind = "reconcile" => call_slots[s].cells = call_slots[s].given
       /\ call_slots[s].done => call_slots[s].acc = ResultAlone(call_slots[s])

C23_Witness ==
  /\ Len(call_slots) >= 2
  /\ \A s \in 1..Len(call_slots) : call_slots[s].done
  /\ call_slots[1].kind = "reconcile"
  /\ call_slots[1].names = << <<"p", "r", "i", "c", "e">>, <<"I", "D">> >>
  /\ call_slots[2].kind = "normalize"
  /\ call_slots[2].given[1] = Str(<<"W", "a", "l", "k", " ", "I", "n">>)
  /\ DictGet(call_slots[1].acc.mapping, <<"p", "r", "i", "c", "e">>)
       = <<"S", "e", "l", "l", "i", "n", "g", "P", "r", "i", "c", "e">>
  /\ call_slots[2].acc.column[1] = Str(<<"W", "a", "l", "k", "I", "n">>)

(***************************************************************************)
(* Specifications                                                          *)
(***************************************************************************)
InitColumns ==
  /\ InitLoad
  /\ NormalizeIdle
  /\ RegistryIdle
  /\ SnakeIdle
  /\ MatchIdle
  /\ CleanIdle
  /\ UploadIdle
  /\ ScoreIdle
  /\ PipelineIdle
  /\ RoutesIdle
  /\ CallsIdle
  /\ PdfIdle

NextColumns ==
  /\ load_csv_file
  /\ UNCHANGED << normalize_vars, registry_vars, snake_vars, match_vars, clean_vars, upload_vars, score_vars, pipe_vars, route_vars, calls_vars, pdf_vars >>

SpecColumns == InitColumns /\ [][NextColumns]_vars

InitFiles ==
  /\ InitLoadFiles
  /\ NormalizeIdle
  /\ RegistryIdle
  /\ SnakeIdle
  /\ MatchIdle
  /\ CleanIdle
  /\ UploadIdle
  /\ ScoreIdle
  /\ PipelineIdle
  /\ RoutesIdle
  /\ CallsIdle
  /\ PdfIdle

SpecLoad == InitFiles /\ [][NextColumns]_vars

InitValues ==
  /\ InitNormalize
  /\ LoadIdle
  /\ RegistryIdle
  /\ SnakeIdle
  /\ MatchIdle
  /\ CleanIdle
  /\ UploadIdle
  /\ ScoreIdle
  /\ PipelineIdle
  /\ RoutesIdle
  /\ CallsIdle
  /\ PdfIdle

NextValues ==
  /\ normalize_lead_sources
  /\ UNCHANGED << load_vars, registry_vars, snake_vars, match_vars, clean_vars, upload_vars, score_vars, pipe_vars, route_vars, calls_vars, pdf_vars >>

SpecValues == InitValues /\ [][NextValues]_vars

InitConfig ==
  /\ InitRegistry
  /\ LoadIdle
  /\ NormalizeIdle
  /\ SnakeIdle
  /\ MatchIdle
  /\ CleanIdle
  /\ UploadIdle
  /\ ScoreIdle
  /\ PipelineIdle
  /\ RoutesIdle
  /\ CallsIdle
  /\ PdfIdle

NextConfig ==
  /\ BuildRegistry
  /\ UNCHANGED << load_vars, normalize_vars, snake_vars, match_vars, clean_vars, upload_vars, score_vars, pipe_vars, route_vars, calls_vars, pdf_vars >>

SpecRegistry == InitConfig /\ [][NextConfig]_vars

InitNames ==
  /\ InitSnake
  /\ LoadIdle
  /\ NormalizeIdle
  /\ RegistryIdle
  /\ MatchIdle
  /\ CleanIdle
  /\ UploadIdle
  /\ ScoreIdle
  /\ PipelineIdle
  /\ RoutesIdle
  /\ CallsIdle
  /\ PdfIdle

NextNames ==
  /\ ApplyToSnakeCase
  /\ UNCHANGED << load_vars, normalize_vars, registry_vars, match_vars, clean_vars, upload_vars, score_vars, pipe_vars, route_vars, calls_vars, pdf_vars >>

SpecSnake == InitNames /\ [][NextNames]_vars

InitMatching ==
  /\ InitMatch
  /\ LoadIdle
  /\ NormalizeIdle
  /\ RegistryIdle
  /\ SnakeIdle
  /\ CleanIdle
  /\ UploadIdle
  /\ ScoreIdle
  /\ PipelineIdle
  /\ RoutesIdle
  /\ CallsIdle
  /\ PdfIdle

NextMatching ==
  /\ CallBestMatchScore
  /\ UNCHANGED << load_vars, normalize_vars, registry_vars, snake_vars, clean_vars, upload_vars, score_vars, pipe_vars, route_vars, calls_vars, pdf_vars >>

SpecMatch == InitMatching /\ [][NextMatching]_vars

InitCleaning ==
  /\ InitClean
  /\ LoadIdle
  /\ NormalizeIdle
  /\ RegistryIdle
  /\ SnakeIdle
  /\ MatchIdle
  /\ UploadIdle
  /\ ScoreIdle
  /\ PipelineIdle
  /\ RoutesIdle
  /\ CallsIdle
  /\ PdfIdle

NextCleaning ==
  /\ CallCleanData
  /\ UNCHANGED << load_vars, normalize_vars, registry_vars, snake_vars, match_vars, upload_vars, score_vars, pipe_vars, route_vars, calls_vars, pdf_vars >>

SpecClean == InitCleaning /\ [][NextCleaning]_vars

InitUploads ==
  /\ InitUpload
  /\ LoadIdle
  /\ NormalizeIdle
  /\ RegistryIdle
  /\ SnakeIdle
  /\ MatchIdle
  /\ CleanIdle
  /\ ScoreIdle
  /\ PipelineIdle
  /\ RoutesIdle
  /\ CallsIdle
  /\ PdfIdle

NextUploads ==
  /\ handle_upload
  /\ UNCHANGED << load_vars, normalize_vars, registry_vars, snake_vars, match_vars, clean_vars, score_vars, pipe_vars, route_vars, calls_vars, pdf_vars >>

SpecUpload == InitUploads /\ [][NextUploads]_vars

InitScoring ==
  /\ InitScore
  /\ LoadIdle
  /\ NormalizeIdle
  /\ RegistryIdle
  /\ SnakeIdle
  /\ MatchIdle
  /\ CleanIdle
  /\ UploadIdle
  /\ PipelineIdle
  /\ RoutesIdle
  /\ CallsIdle
  /\ PdfIdle

NextScoring ==
  /\ CallTokenRatio
  /\ UNCHANGED << load_vars, normalize_vars, registry_vars, snake_vars, match_vars, clean_vars, upload_vars, pipe_vars, route_vars, calls_vars, pdf_vars >>

SpecScore == InitScoring /\ [][NextScoring]_vars

InitCleanThenNormalize ==
  /\ InitPipeline
  /\ LoadIdle
  /\ NormalizeIdle
  /\ RegistryIdle
  /\ SnakeIdle
  /\ MatchIdle
  /\ CleanIdle
  /\ UploadIdle
  /\ ScoreIdle
  /\ RoutesIdle
  /\ CallsIdle
  /\ PdfIdle

NextPipeline ==
  /\ PipelineStep
  /\ UNCHANGED << load_vars, normalize_vars, registry_vars, snake_vars, match_vars, clean_vars, upload_vars, score_vars, route_vars, calls_vars, pdf_vars >>

SpecPipeline == InitCleanThenNormalize /\ [][NextPipeline]_vars

InitRouter ==
  /\ InitRoutes
  /\ LoadIdle
  /\ NormalizeIdle
  /\ RegistryIdle
  /\ SnakeIdle
  /\ MatchIdle
  /\ CleanIdle
  /\ UploadIdle
  /\ ScoreIdle
  /\ PipelineIdle
  /\ CallsIdle
  /\ PdfIdle

NextRouter ==
  /\ RouteCall
  /\ UNCHANGED << load_vars, normalize_vars, registry_vars, snake_vars, match_vars, clean_vars, upload_vars, score_vars, pipe_vars, calls_vars, pdf_vars >>

SpecRoutes == InitRouter /\ [][NextRouter]_vars

InitInterleaved ==
  /\ InitCalls
  /\ LoadIdle
  /\ NormalizeIdle
  /\ RegistryIdle
  /\ SnakeIdle
  /\ MatchIdle
  /\ CleanIdle
  /\ UploadIdle
  /\ ScoreIdle
  /\ PipelineIdle
  /\ RoutesIdle
  /\ PdfIdle

NextInterleaved ==
  /\ CallsStep
  /\ UNCHANGED << load_vars, normalize_vars, registry_vars, snake_vars, match_vars, clean_vars, upload_vars, score_vars, pipe_vars, route_vars, pdf_vars >>

SpecCalls == InitInterleaved /\ [][NextInterleaved]_vars

InitParser ==
  /\ InitPdf
  /\ LoadIdle
  /\ NormalizeIdle
  /\ RegistryIdle
  /\ SnakeIdle
  /\ MatchIdle
  /\ CleanIdle
  /\ UploadIdle
  /\ ScoreIdle
  /\ PipelineIdle
  /\ RoutesIdle
  /\ CallsIdle

NextParser ==
  /\ PdfCall
  /\ UNCHANGED << load_vars, normalize_vars, registry_vars, snake_vars, match_vars, clean_vars, upload_vars, score_vars, pipe_vars, route_vars, calls_vars >>

SpecPdf == InitParser /\ [][NextParser]_vars

InitBoth ==
  /\ InitIntake
  /\ NormalizeIdle
  /\ RegistryIdle
  /\ SnakeIdle
  /\ MatchIdle
  /\ CleanIdle
  /\ ScoreIdle
  /\ PipelineIdle
  /\ RoutesIdle
  /\ CallsIdle
  /\ PdfIdle

NextBoth == NextColumns \/ NextUploads

SpecIntake == InitBoth /\ [][NextBoth]_vars

Init ==
  \/ InitColumns
  \/ InitValues
  \/ InitConfig
  \/ InitNames
  \/ InitMatching
  \/ InitCleaning
  \/ InitUploads
  \/ InitScoring
  \/ InitCleanThenNormalize
  \/ InitRouter
  \/ InitInterleaved
  \/ InitParser
  \/ InitFiles
  \/ InitBoth

Next ==
  \/ NextColumns
  \/ NextValues
  \/ NextConfig
  \/ NextNames
  \/ NextMatching
  \/ NextCleaning
  \/ NextUploads
  \/ NextScoring
  \/ NextPipeline
  \/ NextRouter
  \/ NextInterleaved
  \/ NextParser

Spec == Init /\ [][Next]_vars

====
